---- MODULE Spec2Model ----
(***************************************************************************)
(* Model of the graph compression engine of minimal_signaling:             *)
(*   - SemanticGraph / SemanticNode / SemanticEdge  (semantic_graph.py)    *)
(*   - GraphCompressor.compress                      (graph_compressor.py) *)
(*   - IterativeGraphPipeline.compress and helpers                         *)
(*                                       (iterative_graph_pipeline.py)     *)
(*                                                                         *)
(* Scales.  Python floats are modelled by integers:                        *)
(*   importance        in thousandths   (1.0  = 1000, 0.9 = 900)           *)
(*   ratios, similarity, entropy target, entropy step in hundredths        *)
(*   entropy           in whole "bits"                                     *)
(*   compression_ratio in thousandths (floor)                              *)
(***************************************************************************)
EXTENDS Integers, Sequences, FiniteSets, TLC

VARIABLES
    \* ---- IterativeGraphPipeline (one run of compress) ----
    pc,                      \* position of the run inside compress()
    cfg,                     \* constructor arguments + the message of the run
    graph,                   \* the working graph returned by encoder.encode
    current_entropy_target,  \* local of compress()
    iteration,               \* loop variable of compress()
    compressed,              \* local: graph returned by compressor.compress
    decoded,                 \* local: text returned by decoder.decode
    similarity,              \* local: judge_result.similarity_score
    missing_concepts,        \* local: result of _analyze_loss
    iterations,              \* local: list of IterationResult
    result,                  \* the PipelineResult returned (or NoResult)
    calls,                   \* number of calls made to each collaborator
    io,                      \* what the extractor and the loss analyzer
                             \* answered, and the exception that left compress()
    \* ---- GraphCompressor used on its own ----
    c_graph,                 \* argument graph
    c_preserve,              \* argument preserve_types
    c_ratio,                 \* argument target_ratio of the last call
    c_out,                   \* the walk of the last call and the graph it returned
    \* ---- IterativeGraphPipeline._boost_importance used on its own ----
    b_graph,                 \* argument graph (mutated in place)
    b_concepts,              \* argument missing_concepts of the last call
    b_count,                 \* boosted_count returned by the last call
    b_calls,                 \* number of calls made
    \* ---- GroqClient.chat with its RateLimiter ----
    now,                     \* time.time(), in ticks
    limiter,                 \* RateLimiter: last_request and the holder of _lock
    client,                  \* GroqClient: backup_keys and current_key_index
    callers,                 \* per caller of chat(): where it is
    sent,                    \* the requests sent to the endpoint so far
    \* ---- CompressionEngine.compress_to_budget and Mediator.process ----
    engine,                  \* the engine's fields and the locals of its call
    mediator,                \* the mediator's config and the locals of process()
    emitted                  \* the events the emitter has handed to its handlers

vars == <<pc, cfg, graph, current_entropy_target, iteration, compressed,
          decoded, similarity, missing_concepts, iterations, result, calls, io,
          c_graph, c_preserve, c_ratio, c_out,
          b_graph, b_concepts, b_count, b_calls,
          now, limiter, client, callers, sent,
          engine, mediator, emitted>>

pipeVars == <<pc, cfg, graph, current_entropy_target, iteration, compressed,
              decoded, similarity, missing_concepts, iterations, result, calls,
              io>>

compVars == <<c_graph, c_preserve, c_ratio, c_out>>

boostVars == <<b_graph, b_concepts, b_count, b_calls>>

gateVars == <<now, limiter, client, callers, sent>>

medVars == <<engine, mediator, emitted>>

----------------------------------------------------------------------------
(* Bounds of the model *)

MaxNodes == 3        \* generated graphs have at most this many units
MaxIter  == 3        \* max_iterations is drawn from 0..MaxIter
MaxBoostNodes == 2   \* graphs handed to _boost_importance alone have at most
                     \* this many units
MaxBoosts == 3       \* at most this many successive _boost_importance calls
MaxCallers == 2      \* concurrent callers of GroqClient.chat
MaxTime == 4         \* the clock is observed for this many seconds
MaxTokens == 3       \* texts given to the compression engine have at most
                     \* this many tokens
MaxPasses == 3       \* max_passes is drawn from 0..MaxPasses

----------------------------------------------------------------------------
(* semantic_graph.py *)

NodeType == {"intent", "entity", "attribute", "detail", "constraint", "outcome"}

Range(s) == {s[i] : i \in DOMAIN s}

\* SemanticNode(id, content, node_type, importance, entropy)
SemanticNode(id, content, node_type, importance, entropy) ==
    [id |-> id, content |-> content, node_type |-> node_type,
     importance |-> importance, entropy |-> entropy]

\* SemanticEdge(source, target, relation)
SemanticEdge(source, target, relation) ==
    [source |-> source, target |-> target, relation |-> relation]

NoRoot == 0

\* SemanticGraph.__init__
EmptyGraph == [nodes |-> <<>>, edges |-> <<>>, root_id |-> NoRoot]

\* keys of graph.nodes
NodeIds(g) == {g.nodes[i].id : i \in DOMAIN g.nodes}

\* SemanticGraph.get_node
get_node(g, id) == CHOOSE n \in Range(g.nodes) : n.id = id

\* SemanticGraph.add_edge on a graph whose node ids are `ids`:
\* the edge is appended only when both endpoints exist
add_edge(edges, ids, source_id, target_id, relation) ==
    IF source_id \in ids /\ target_id \in ids
    THEN Append(edges, SemanticEdge(source_id, target_id, relation))
    ELSE edges

RECURSIVE SumEntropy(_)
SumEntropy(s) == IF s = <<>> THEN 0 ELSE Head(s).entropy + SumEntropy(Tail(s))

RECURSIVE SumImportance(_)
SumImportance(s) ==
    IF s = <<>> THEN 0 ELSE Head(s).importance + SumImportance(Tail(s))

\* SemanticGraph.total_entropy / total_importance / node_count
total_entropy(g)    == SumEntropy(g.nodes)
total_importance(g) == SumImportance(g.nodes)
node_count(g)       == Len(g.nodes)

\* A graph returned by the compressor holds the SAME SemanticNode objects as
\* its source (compressed.add_node(node)): it is modelled as the set of ids
\* of those objects, whose fields are read through the source graph.
NodesOf(g, ids) == SelectSeq(g.nodes, LAMBDA n : n.id \in ids)
view_total_entropy(g, c)    == SumEntropy(NodesOf(g, c.nodes))
view_total_importance(g, c) == SumImportance(NodesOf(g, c.nodes))
view_node_count(c)          == Cardinality(c.nodes)

----------------------------------------------------------------------------
(* graph_compressor.py *)

ImportanceOne      == 1000   \* importance 1.0
EscapeImportance   == 900    \* node.importance > 0.9
EscapeMaxSelected  == 10     \* len(selected_nodes) < 10
RatioOne           == 100    \* ratio 1.0

DefaultPreserve == {"intent"}

\* sorted(prunable, key=importance, reverse=True): stable, so units of equal
\* importance keep their insertion order
InsertDescUnstable(sorted, n) ==
    LET k == Cardinality({i \in DOMAIN sorted :
                             sorted[i].importance > n.importance})
    IN  SubSeq(sorted, 1, k) \o <<n>> \o SubSeq(sorted, k + 1, Len(sorted))

InsertDesc(sorted, n) ==
    LET k == Cardinality({i \in DOMAIN sorted :
                             sorted[i].importance >= n.importance})
    IN  SubSeq(sorted, 1, k) \o <<n>> \o SubSeq(sorted, k + 1, Len(sorted))

RECURSIVE SortedDesc(_)
SortedDesc(s) ==
    IF s = <<>> THEN <<>>
    ELSE InsertDesc(SortedDesc(SubSeq(s, 1, Len(s) - 1)), s[Len(s)])

\* a walk that tests the budget before adding the unit's entropy
WalkStepOvershoot(st, node, target100) ==
    IF st.current_entropy * 100 <= target100
    THEN [st EXCEPT !.selected_nodes = @ \cup {node.id},
                    !.current_entropy = @ + node.entropy]
    ELSE IF node.importance > 900 /\ Cardinality(st.selected_nodes) < 10
         THEN [st EXCEPT !.selected_nodes = @ \cup {node.id},
                         !.current_entropy = @ + node.entropy,
                         !.escaped = @ \cup {node.id}]
         ELSE st

\* a walk whose escape valve does not add the unit's entropy
WalkStepEscapeUncounted(st, node, target100) ==
    IF (st.current_entropy + node.entropy) * RatioOne <= target100
    THEN [st EXCEPT !.selected_nodes = @ \cup {node.id},
                    !.current_entropy = @ + node.entropy]
    ELSE IF node.importance > EscapeImportance
            /\ Cardinality(st.selected_nodes) < EscapeMaxSelected
         THEN [st EXCEPT !.selected_nodes = @ \cup {node.id},
                         !.escaped = @ \cup {node.id}]
         ELSE st

\* one turn of the loop `for node in prunable_sorted`; target100 is
\* graph.total_entropy() * target_ratio with the ratio in hundredths.
\* `escaped` records which units came in through the else-branch.
WalkStep(st, node, target100) ==
    IF (st.current_entropy + node.entropy) * RatioOne <= target100
    THEN [st EXCEPT !.selected_nodes = @ \cup {node.id},
                    !.current_entropy = @ + node.entropy]
    ELSE IF node.importance > EscapeImportance
            /\ Cardinality(st.selected_nodes) < EscapeMaxSelected
         THEN [st EXCEPT !.selected_nodes = @ \cup {node.id},
                         !.current_entropy = @ + node.entropy,
                         !.escaped = @ \cup {node.id}]
         ELSE st

RECURSIVE Walk(_, _, _)
Walk(nodes, st, target100) ==
    IF nodes = <<>> THEN st
    ELSE Walk(Tail(nodes), WalkStep(st, Head(nodes), target100), target100)

\* must_keep of GraphCompressor.compress
MustKeep(g, preserve_types) ==
    SelectSeq(g.nodes, LAMBDA n : n.node_type \in preserve_types)

\* prunable of GraphCompressor.compress
Prunable(g, preserve_types) ==
    SelectSeq(g.nodes, LAMBDA n : n.node_type \notin preserve_types)

\* a selection that sends the preserved units through the budget as well
SelectNothingPreserved(g, target_ratio, preserve_types) ==
    Walk(SortedDesc(g.nodes),
         [selected_nodes |-> {}, current_entropy |-> 0, escaped |-> {}],
         total_entropy(g) * target_ratio)

\* a selection that reads the ratio as the share to remove
SelectInvertedRatio(g, target_ratio, preserve_types) ==
    LET must_keep == MustKeep(g, preserve_types)
    IN  Walk(SortedDesc(Prunable(g, preserve_types)),
             [selected_nodes  |-> {n.id : n \in Range(must_keep)},
              current_entropy |-> SumEntropy(must_keep),
              escaped         |-> {}],
             total_entropy(g) * (100 - target_ratio))

\* GraphCompressor.compress up to the end of the selection loop
Select(g, target_ratio, preserve_types) ==
    LET target100 == total_entropy(g) * target_ratio
        must_keep == MustKeep(g, preserve_types)
        prunable_sorted == SortedDesc(Prunable(g, preserve_types))
        st0 == [selected_nodes  |-> {n.id : n \in Range(must_keep)},
                current_entropy |-> SumEntropy(must_keep),
                escaped         |-> {}]
    IN  Walk(prunable_sorted, st0, target100)

RECURSIVE CopyEdges(_, _, _)
CopyEdges(edges, selected_ids, acc) ==
    IF edges = <<>> THEN acc
    ELSE LET e == Head(edges)
         IN  CopyEdges(Tail(edges), selected_ids,
                IF e.source \in selected_ids /\ e.target \in selected_ids
                THEN add_edge(acc, selected_ids, e.source, e.target, e.relation)
                ELSE acc)

\* a build that always puts the root into the compressed graph
BuildWithRoot(original, selected_ids) ==
    [nodes   |-> selected_ids \cup {original.root_id},
     edges   |-> CopyEdges(original.edges, selected_ids, <<>>),
     root_id |-> original.root_id]

\* a build that takes over the edge list of the original
BuildAllEdges(original, selected_ids) ==
    [nodes |-> selected_ids, edges |-> original.edges,
     root_id |-> original.root_id]

\* GraphCompressor._build_compressed_graph
build_compressed_graph(original, selected_ids) ==
    [nodes   |-> selected_ids,
     edges   |-> CopyEdges(original.edges, selected_ids, <<>>),
     root_id |-> original.root_id]

\* GraphCompressor.compress
Compress(g, target_ratio, preserve_types) ==
    build_compressed_graph(g,
        Select(g, target_ratio, preserve_types).selected_nodes)

\* a compressor that prunes the graph it was given
PrunedInPlace(g, target_ratio, preserve_types) ==
    LET kept == Select(g, target_ratio, preserve_types).selected_nodes
    IN  [g EXCEPT !.nodes = NodesOf(g, kept),
                  !.edges = CopyEdges(g.edges, kept, <<>>)]

\* the argument graph after GraphCompressor.compress: the method assigns no
\* field of `graph` and no field of its nodes (sorted() and the list
\* comprehensions build new lists, add_node and add_edge act on `compressed`)
graph_after_compress(g, target_ratio, preserve_types) == g

----------------------------------------------------------------------------
(* Inputs of the compressor when it is used on its own *)

GenKinds      == {"intent", "detail"}
GenImportance == {500, 950}
GenEntropy    == {0, 1, 3}
PreserveSets  == {{}, {"intent"}, {"intent", "detail"}}
Ratios        == {0, 40, 60, 100}
InvalidRatios == {-10}      \* a negative target_ratio
AllRatios     == Ratios \cup InvalidRatios
NoRatio       == -1
NoOut         == [walk |-> [selected_nodes |-> {}, current_entropy |-> 0,
                            escaped |-> {}],
                  graph |-> [nodes |-> {}, edges |-> <<>>, root_id |-> NoRoot],
                  called |-> FALSE, raised |-> FALSE]

GenChoices == [node_type : GenKinds, importance : GenImportance,
               entropy : GenEntropy]

\* GraphEncoder._build_graph sets the root to the first intent unit
FirstIntent(nodes) ==
    IF \E i \in DOMAIN nodes : nodes[i].node_type = "intent"
    THEN nodes[CHOOSE i \in DOMAIN nodes :
                 /\ nodes[i].node_type = "intent"
                 /\ \A j \in 1..(i-1) : nodes[j].node_type # "intent"].id
    ELSE NoRoot

\* edges i -> i+1 and last -> first, each added with add_edge
RECURSIVE RingEdges(_, _, _)
RingEdges(n, i, acc) ==
    IF i > n THEN acc
    ELSE RingEdges(n, i + 1,
            add_edge(acc, 1..n, i, IF i = n THEN 1 ELSE i + 1, "relates_to"))

GenGraph(f) ==
    LET nodes == [i \in DOMAIN f |->
                    SemanticNode(i, <<>>, f[i].node_type, f[i].importance,
                                 f[i].entropy)]
    IN  [nodes |-> nodes, edges |-> RingEdges(Len(nodes), 1, <<>>),
         root_id |-> FirstIntent(nodes)]

GenGraphs ==
    {GenGraph(f) : f \in UNION {[1..n -> GenChoices] : n \in 0..MaxNodes}}

\* a graph with more very important units than the escape valve lets through
BigGraph ==
    GenGraph([i \in 1..(EscapeMaxSelected + 1) |->
                [node_type |-> "detail", importance |-> 950, entropy |-> 1]])

\* a graph whose second most important unit is too big for a small budget
\* and not important enough for the escape valve, before a small unit
SkipGraph ==
    GenGraph(<<[node_type |-> "intent", importance |-> 1000, entropy |-> 1],
               [node_type |-> "entity", importance |-> 800,  entropy |-> 3],
               [node_type |-> "detail", importance |-> 500,  entropy |-> 1]>>)

----------------------------------------------------------------------------
(* GraphCompressor used on its own: compress(c_graph, r, c_preserve) *)

CInit ==
    /\ c_graph \in GenGraphs \cup {BigGraph, SkipGraph}
    /\ c_preserve \in PreserveSets
    /\ c_ratio = NoRatio
    /\ c_out = NoOut

CIdle ==
    /\ c_graph = EmptyGraph
    /\ c_preserve = DefaultPreserve
    /\ c_ratio = NoRatio
    /\ c_out = NoOut

\* a call compress(c_graph, r, c_preserve); the method has no raise
\* statement and no check of its arguments, so every call returns a graph
CompressCall ==
    \E r \in AllRatios :
        /\ c_ratio' = r
        /\ c_out' = [walk   |-> Select(c_graph, r, c_preserve),
                     graph  |-> Compress(c_graph, r, c_preserve),
                     called |-> TRUE,
                     raised |-> FALSE]
        /\ c_graph' = graph_after_compress(c_graph, r, c_preserve)
        /\ UNCHANGED c_preserve
        /\ UNCHANGED <<pipeVars, boostVars, gateVars, medVars>>

----------------------------------------------------------------------------
(* iterative_graph_pipeline.py : _boost_importance *)

\* A text is modelled as the sequence of its whitespace-separated words
\* (str.split); str.lower acts on each word.
Lower(w) ==
    CASE w = "Enterprise" -> "enterprise"
      [] w = "Analyze"    -> "analyze"
      [] w = "Q3"         -> "q3"
      [] w = "QUERY"      -> "query"
      [] w = "The"        -> "the"
      [] OTHER            -> w

stop_words == {"the", "a", "an", "and", "or", "but", "in", "on", "at", "to",
               "for", "of", "with", "by"}

MinTermLen == 2     \* len(term) > 2

\* set(term for term in text.lower().split()
\*     if term not in stop_words and len(term) > 2)
Terms(text) ==
    {t \in {Lower(text[i]) : i \in DOMAIN text} :
        t \notin stop_words /\ Len(t) > MinTermLen}

\* missing_terms accumulated over all concepts
MissingTerms(concepts) == UNION {Terms(concepts[i]) : i \in DOMAIN concepts}

Min(a, b) == IF a <= b THEN a ELSE b
Max(a, b) == IF a >= b THEN a ELSE b

\* an item of missing_concepts that is not a str (a JSON number, say):
\* concept.lower() raises AttributeError on it
NotAString == <<"<number>">>
IsStr(concept) == concept # NotAString

\* a "missing_concepts" list whose items are not strings
NonStringLists == {<<NotAString>>}

\* body of `for node in graph.nodes.values()`: the node after the boost
BoostNodeUncapped(node, missing_terms) ==
    LET node_terms == Terms(node.content)
        overlap    == missing_terms \cap node_terms
    IN  IF overlap # {}
        THEN LET big == 10 * Cardinality(overlap)
                          > 3 * Max(Cardinality(node_terms), 1)
                 boosted == IF big THEN (node.importance * 3) \div 2
                                   ELSE (node.importance * 6) \div 5
             IN  [node EXCEPT !.importance = boosted]
        ELSE node

BoostNodeDecays(node, missing_terms) ==
    LET node_terms == Terms(node.content)
        overlap    == missing_terms \cap node_terms
    IN  IF overlap # {}
        THEN [node EXCEPT !.importance = Min((node.importance * 4) \div 5,
                                             ImportanceOne)]
        ELSE node

BoostNodeSwappedFactors(node, missing_terms) ==
    LET node_terms == Terms(node.content)
        overlap    == missing_terms \cap node_terms
    IN  IF overlap # {}
        THEN LET big == 10 * Cardinality(overlap)
                          > 3 * Max(Cardinality(node_terms), 1)
                 boosted == IF big THEN (node.importance * 6) \div 5
                                   ELSE (node.importance * 3) \div 2
             IN  [node EXCEPT !.importance = Min(boosted, ImportanceOne)]
        ELSE node

BoostNode(node, missing_terms) ==
    LET node_terms == Terms(node.content)
        overlap    == missing_terms \cap node_terms
    IN  IF overlap # {}
        THEN LET \* overlap_ratio > 0.3
                 big == 10 * Cardinality(overlap)
                          > 3 * Max(Cardinality(node_terms), 1)
                 \* boost_factor 1.5, else 1.2
                 boosted == IF big THEN (node.importance * 3) \div 2
                                   ELSE (node.importance * 6) \div 5
             IN  [node EXCEPT !.importance = Min(boosted, ImportanceOne)]
        ELSE node

\* IterativeGraphPipeline._boost_importance: the graph after the call, the
\* returned boosted_count, and whether the call raised (the terms of all
\* concepts are collected before any node is touched)
BoostEmptyCountsAll(g, concepts) ==
    IF concepts = <<>>
    THEN [graph |-> g, boosted_count |-> node_count(g), raised |-> FALSE]
    ELSE IF \E i \in DOMAIN concepts : ~IsStr(concepts[i])
    THEN [graph |-> g, boosted_count |-> 0, raised |-> TRUE]
    ELSE LET mt    == MissingTerms(concepts)
             nodes == [i \in DOMAIN g.nodes |-> BoostNode(g.nodes[i], mt)]
         IN  [graph |-> [g EXCEPT !.nodes = nodes],
              boosted_count |->
                 Cardinality({i \in DOMAIN nodes :
                     nodes[i].importance > g.nodes[i].importance}),
              raised |-> FALSE]

boost_importance(g, concepts) ==
    IF concepts = <<>>
    THEN [graph |-> g, boosted_count |-> 0, raised |-> FALSE]
    ELSE IF \E i \in DOMAIN concepts : ~IsStr(concepts[i])
    THEN [graph |-> g, boosted_count |-> 0, raised |-> TRUE]
    ELSE LET mt    == MissingTerms(concepts)
             nodes == [i \in DOMAIN g.nodes |-> BoostNode(g.nodes[i], mt)]
         IN  [graph |-> [g EXCEPT !.nodes = nodes],
              boosted_count |->
                 Cardinality({i \in DOMAIN nodes :
                     nodes[i].importance > g.nodes[i].importance}),
              raised |-> FALSE]

----------------------------------------------------------------------------
(* _boost_importance called on its own, any number of times on one graph *)

BoostContents ==
    {<<"revenue", "decline">>,
     <<"the", "team", "met">>,
     <<"Enterprise", "segment", "revenue", "growth", "is", "up">>}

\* importance values in [0, 1]
BoostImportance == {0, 500, 700, 900, 1000}

BoostUnits == [content : BoostContents, importance : BoostImportance]

BoostGraph(f) ==
    [nodes   |-> [i \in DOMAIN f |->
                     SemanticNode(i, f[i].content, "detail", f[i].importance, 1)],
     edges   |-> <<>>,
     root_id |-> NoRoot]

BoostGraphs ==
    {BoostGraph(f) : f \in UNION {[1..n -> BoostUnits] : n \in 1..MaxBoostNodes}}

\* missing_concepts arguments: the empty list, lists of phrases (one of them
\* made of stop words only) and a list with an item that is not a str
BoostConceptLists ==
    {<<>>,
     << <<"revenue">> >>,
     << <<"The", "team">>, <<"Enterprise", "segment">> >>,
     << <<"of", "the">> >>}
       \cup NonStringLists

NoCount == -1

BInit ==
    /\ b_graph \in BoostGraphs
    /\ b_concepts = <<>>
    /\ b_count = NoCount
    /\ b_calls = 0

BIdle ==
    /\ b_graph = EmptyGraph
    /\ b_concepts = <<>>
    /\ b_count = NoCount
    /\ b_calls = 0

\* boosted_count = self._boost_importance(graph, missing_concepts); after an
\* exception nothing is returned
BoostCall ==
    /\ b_calls < MaxBoosts
    /\ \E c \in BoostConceptLists :
          LET r == boost_importance(b_graph, c)
          IN  /\ b_concepts' = c
              /\ b_graph' = r.graph
              /\ b_count' = IF r.raised THEN NoCount ELSE r.boosted_count
    /\ b_calls' = b_calls + 1
    /\ UNCHANGED <<pipeVars, compVars, gateVars, medVars>>

----------------------------------------------------------------------------
(* groq_client.py : RateLimiter and GroqClient.chat, callers on one event loop.
   Time is counted in seconds. *)

RequestsPerMinute == 30
\* self.interval = 60.0 / requests_per_minute
Interval == 60 \div RequestsPerMinute

\* self.last_request = 0.0, and time.time() is far from it when the first
\* call is made
InitialLastRequest == 0
StartTime == Interval

PrimaryKey == -1      \* current_key_index = -1 means using the primary key
MaxBackupKeys == 2    \* GROQ_BACKUP_KEY and GROQ_BACKUP_KEY_2
NoHolder == 0

Callers == 1..MaxCallers

IdleCaller == [pc |-> "idle", wake |-> 0, attempt |-> PrimaryKey]

GInit ==
    /\ now = StartTime
    /\ limiter = [last_request |-> InitialLastRequest,
                  holder       |-> NoHolder,
                  waiters      |-> <<>>]
    /\ \E n \in 0..MaxBackupKeys :
          client = [backup_keys |-> n, current_key_index |-> PrimaryKey]
    /\ callers = [c \in Callers |-> IdleCaller]
    /\ sent = <<>>

GIdle ==
    /\ now = 0
    /\ limiter = [last_request |-> InitialLastRequest,
                  holder       |-> NoHolder,
                  waiters      |-> <<>>]
    /\ client = [backup_keys |-> 0, current_key_index |-> PrimaryKey]
    /\ callers = <<>>
    /\ sent = <<>>

\* client.chat.completions.create is synchronous: while a request is in
\* flight the event loop runs no other caller
Blocked == \E c \in Callers : callers[c].pc = "create"

\* self.client.chat.completions.create(**kwargs) sends a request with the
\* key the client holds
Request(key) == [time |-> now, key |-> key]

\* acquire(), from `self.last_request = time.time()` on: the lock is
\* released, acquire returns and chat() sends the request of its try block
\* right away (attempt is the index of the backup loop, PrimaryKey before it)
PassGate(c) ==
    /\ limiter' = [limiter EXCEPT !.last_request = now, !.holder = NoHolder]
    /\ sent' = Append(sent, Request(client.current_key_index))
    /\ callers' = [callers EXCEPT ![c] =
                      [pc |-> "create", wake |-> 0, attempt |-> PrimaryKey]]
    /\ UNCHANGED <<now, client>>

\* acquire() with the lock taken by c: elapsed = now - last_request;
\* sleep(interval - elapsed) under the lock when elapsed < interval
Enter(c, waiters) ==
    IF now - limiter.last_request < Interval
    THEN /\ limiter' = [limiter EXCEPT !.holder = c, !.waiters = waiters]
         /\ callers' = [callers EXCEPT ![c] =
                           [pc      |-> "sleeping",
                            wake    |-> now + (Interval
                                                 - (now - limiter.last_request)),
                            attempt |-> PrimaryKey]]
         /\ UNCHANGED <<now, client, sent>>
    ELSE /\ limiter' = [limiter EXCEPT !.last_request = now,
                                       !.holder = NoHolder,
                                       !.waiters = waiters]
         /\ sent' = Append(sent, Request(client.current_key_index))
         /\ callers' = [callers EXCEPT ![c] =
                           [pc |-> "create", wake |-> 0, attempt |-> PrimaryKey]]
         /\ UNCHANGED <<now, client>>

\* a caller starts chat(), for the first time or after its previous call
\* is over: await self.rate_limiter.acquire(); `async with self._lock` takes
\* a free lock nobody waits for, else the caller queues
CallChat(c) ==
    /\ ~Blocked
    /\ callers[c].pc \in {"idle", "done", "failed"}
    /\ IF limiter.holder = NoHolder /\ limiter.waiters = <<>>
       THEN Enter(c, <<>>)
       ELSE /\ limiter' = [limiter EXCEPT !.waiters = Append(@, c)]
            /\ callers' = [callers EXCEPT ![c].pc = "wait_lock"]
            /\ UNCHANGED <<now, client, sent>>
    /\ UNCHANGED <<pipeVars, compVars, boostVars, medVars>>

\* the released lock goes to its first waiter
LockGranted(c) ==
    /\ ~Blocked
    /\ callers[c].pc = "wait_lock"
    /\ limiter.holder = NoHolder
    /\ limiter.waiters # <<>>
    /\ Head(limiter.waiters) = c
    /\ Enter(c, Tail(limiter.waiters))
    /\ UNCHANGED <<pipeVars, compVars, boostVars, medVars>>

\* asyncio.sleep is over (it lasts at least the time asked for)
Wake(c) ==
    /\ ~Blocked
    /\ callers[c].pc = "sleeping"
    /\ now >= callers[c].wake
    /\ PassGate(c)
    /\ UNCHANGED <<pipeVars, compVars, boostVars, medVars>>

\* a second passes
Tick ==
    /\ now < StartTime + MaxTime
    /\ now' = now + 1
    /\ UNCHANGED <<limiter, client, callers, sent>>
    /\ UNCHANGED <<pipeVars, compVars, boostVars, medVars>>

\* the request in flight is answered: chat() returns the content
CreateOk(c) ==
    /\ callers[c].pc = "create"
    /\ callers' = [callers EXCEPT ![c].pc = "done"]
    /\ UNCHANGED <<now, limiter, client, sent>>
    /\ UNCHANGED <<pipeVars, compVars, boostVars, medVars>>

\* the request in flight fails with an error that is not a rate-limit error,
\* or with a rate-limit error when no key is left to try: chat() raises
CreateError(c) ==
    /\ callers[c].pc = "create"
    /\ callers' = [callers EXCEPT ![c].pc = "failed"]
    /\ UNCHANGED <<now, limiter, client, sent>>
    /\ UNCHANGED <<pipeVars, compVars, boostVars, medVars>>

\* the request in flight fails with a rate-limit error and a backup key is
\* left: `for i, backup_key in enumerate(self.backup_keys)` takes its next
\* value, the client is switched to that key unless it already holds it, and
\* the request is sent again at once
CreateRateLimited(c) ==
    /\ callers[c].pc = "create"
    /\ LET i == callers[c].attempt + 1
       IN  /\ i < client.backup_keys
           /\ client' = [client EXCEPT !.current_key_index = i]
           /\ sent' = Append(sent, Request(i))
           /\ callers' = [callers EXCEPT ![c].attempt = i]
    /\ UNCHANGED <<now, limiter>>
    /\ UNCHANGED <<pipeVars, compVars, boostVars, medVars>>

----------------------------------------------------------------------------
(* Inputs of a pipeline run *)

LongMessageTokens == 1000   \* original_tokens > 1000
LongMessageTarget == 90     \* current_entropy_target = 0.90
RelaxBelow        == 70     \* similarity < 0.70
TargetCap         == 95     \* min(..., 0.95)

Configs ==
    [target_similarity      : {60, 80},
     initial_entropy_target : {40, 100},
     max_iterations         : 0..MaxIter,
     entropy_step           : {10, 30},
     original_tokens        : {0, 500, 1500}]

\* graphs the encoder can return
GraphA ==
    [nodes |-> <<
        SemanticNode(1, <<"Analyze", "the", "Q3", "revenue">>, "intent", 1000, 3),
        SemanticNode(2, <<"Enterprise", "segment", "is", "concerning">>,
                     "entity", 750, 4),
        SemanticNode(3, <<"23%", "decline">>, "attribute", 780, 2),
        SemanticNode(4, <<"the", "team", "met", "on", "monday">>, "detail", 500, 3)>>,
     edges |-> <<SemanticEdge(1, 2, "relates_to"),
                 SemanticEdge(2, 3, "has_attribute"),
                 SemanticEdge(1, 4, "relates_to")>>,
     root_id |-> 1]

\* the fallback structure of _extract_structure after a JSON decode error
GraphFallback ==
    [nodes |-> <<SemanticNode(1, <<"QUERY">>, "intent", 500, 1)>>,
     edges |-> <<>>,
     root_id |-> 1]

\* a graph without an intent unit
GraphNoIntent ==
    [nodes |-> <<
        SemanticNode(1, <<"reduce", "churn", "by", "5%">>, "outcome", 1000, 5),
        SemanticNode(2, <<"churn", "of", "the", "segment">>, "detail", 500, 2)>>,
     edges |-> <<SemanticEdge(1, 2, "leads_to")>>,
     root_id |-> NoRoot]

\* _build_graph of a JSON object without "nodes" (structure.get("nodes", [])
\* is empty): no unit at all
ExtractedGraphs == {GraphA, GraphFallback, GraphNoIntent, EmptyGraph}

\* what the extractor's response was, for the graph encode() returned:
\* "ok" (an object with nodes and edges), "unparseable" (json.loads raised
\* JSONDecodeError), "wrong_shape" (valid JSON of another shape)
ExtractKind(g) ==
    IF g = GraphFallback THEN "unparseable"
    ELSE IF g = EmptyGraph THEN "wrong_shape"
    ELSE "ok"

\* encode() raising: the LLM call failed, or the response is valid JSON whose
\* shape _build_graph cannot walk (a list, nodes that are not objects, ...)
EncodeRaiseKinds == {"call_failed", "wrong_shape"}

\* texts the decoder can return, and TiktokenTokenizer.count_tokens of each
DecodedTexts == {"short", "long"}
count_tokens(text) == IF text = "short" THEN 100 ELSE 300

\* similarity scores the judge can return
Scores == {0, 70, 80}

\* lists the loss analyzer can return
ConceptLists ==
    {<<>>,
     << <<"23%", "decline", "in", "Enterprise", "segment">>,
        <<"The", "team">> >>}

NoGraph    == [nodes |-> {}, edges |-> <<>>, root_id |-> NoRoot]
NoResult   == [returned |-> FALSE]
NoCalls    == [extract |-> 0, compress |-> 0, decode |-> 0, judge |-> 0,
               analyze |-> 0, boost |-> 0]
NoIO       == [extract |-> "none", loss |-> "none", exception |-> "none"]

----------------------------------------------------------------------------
(* graph_compressor.py : get_compression_stats (ratios in thousandths) *)

PerMille(a, b) == IF b > 0 THEN (a * 1000) \div b ELSE 0

get_compression_stats(original, c) ==
    [original_nodes        |-> node_count(original),
     compressed_nodes      |-> view_node_count(c),
     nodes_removed         |-> node_count(original) - view_node_count(c),
     node_retention        |-> PerMille(view_node_count(c), node_count(original)),
     original_entropy      |-> total_entropy(original),
     compressed_entropy    |-> view_total_entropy(original, c),
     entropy_retention     |-> PerMille(view_total_entropy(original, c),
                                        total_entropy(original)),
     original_importance   |-> total_importance(original),
     compressed_importance |-> view_total_importance(original, c),
     importance_retention  |-> PerMille(view_total_importance(original, c),
                                        total_importance(original))]

----------------------------------------------------------------------------
(* iterative_graph_pipeline.py : IterativeGraphPipeline.compress *)

\* line 123: `for iteration in range(1, self.max_iterations + 1)`
InRangeOneMore(i, max_iterations) == 1 <= i /\ i <= max_iterations + 1

InRange(i, max_iterations) == 1 <= i /\ i <= max_iterations

\* line 185: `if similarity >= self.target_similarity`
HitTargetStrict(sim, target_similarity) == sim > target_similarity

HitTarget(sim, target_similarity) == sim >= target_similarity

\* line 198: `if iteration < self.max_iterations`
NotLastInclusive(i, max_iterations) == i <= max_iterations

NotLast(i, max_iterations) == i < max_iterations

PInit ==
    /\ pc = "start"
    /\ cfg \in Configs
    /\ graph = EmptyGraph
    /\ current_entropy_target = 0
    /\ iteration = 0
    /\ compressed = NoGraph
    /\ decoded = "none"
    /\ similarity = 0
    /\ missing_concepts = <<>>
    /\ iterations = <<>>
    /\ result = NoResult
    /\ calls = NoCalls
    /\ io = NoIO

PIdle ==
    /\ pc = "idle"
    /\ cfg = [target_similarity |-> 80, initial_entropy_target |-> 40,
              max_iterations |-> 5, entropy_step |-> 10, original_tokens |-> 0]
    /\ graph = EmptyGraph
    /\ current_entropy_target = 0
    /\ iteration = 0
    /\ compressed = NoGraph
    /\ decoded = "none"
    /\ similarity = 0
    /\ missing_concepts = <<>>
    /\ iterations = <<>>
    /\ result = NoResult
    /\ calls = NoCalls
    /\ io = NoIO

\* lines 104-123: count the tokens, encode once, choose the first target and
\* enter the loop.  With max_iterations = 0 the loop body never runs and
\* iterations[-1] raises IndexError.
EncodeOk ==
    /\ pc = "start"
    /\ \E g \in ExtractedGraphs :
          /\ graph' = g
          /\ io' = [io EXCEPT !.extract = ExtractKind(g),
                              !.exception = IF InRange(1, cfg.max_iterations)
                                            THEN @ ELSE "IndexError"]
    /\ calls' = [calls EXCEPT !.extract = @ + 1]
    /\ current_entropy_target' =
          IF cfg.original_tokens > LongMessageTokens
          THEN LongMessageTarget
          ELSE cfg.initial_entropy_target
    /\ iterations' = <<>>
    /\ IF InRange(1, cfg.max_iterations)
       THEN iteration' = 1 /\ pc' = "compress"
       ELSE iteration' = 0 /\ pc' = "raised"
    /\ UNCHANGED <<cfg, compressed, decoded, similarity, missing_concepts,
                   result>>
    /\ UNCHANGED <<compVars, boostVars, gateVars, medVars>>

\* encoder.encode raises (the LLM call fails, or the response is JSON of an
\* unexpected shape): the exception leaves compress()
EncodeRaise ==
    /\ pc = "start"
    /\ calls' = [calls EXCEPT !.extract = @ + 1]
    /\ pc' = "raised"
    /\ UNCHANGED <<cfg, graph, current_entropy_target, iteration, compressed,
                   decoded, similarity, missing_concepts, iterations, result>>
    /\ \E k \in EncodeRaiseKinds :
          io' = [io EXCEPT !.extract = k, !.exception = "encode"]
    /\ UNCHANGED <<compVars, boostVars, gateVars, medVars>>

\* line 130: compressed = self.compressor.compress(graph, current_entropy_target)
CompressStepOnPrevious ==
    /\ pc = "compress"
    /\ LET src == IF iteration > 1
                  THEN [graph EXCEPT !.nodes = NodesOf(graph, compressed.nodes)]
                  ELSE graph
       IN  /\ compressed' = Compress(src, current_entropy_target, DefaultPreserve)
           /\ graph' = src
    /\ calls' = [calls EXCEPT !.compress = @ + 1]
    /\ pc' = "decode"
    /\ UNCHANGED <<cfg, current_entropy_target, iteration, decoded,
                   similarity, missing_concepts, iterations, result>>
    /\ UNCHANGED io
    /\ UNCHANGED <<compVars, boostVars, gateVars, medVars>>

CompressStep ==
    /\ pc = "compress"
    /\ compressed' = Compress(graph, current_entropy_target, DefaultPreserve)
    /\ calls' = [calls EXCEPT !.compress = @ + 1]
    /\ pc' = "decode"
    /\ UNCHANGED <<cfg, graph, current_entropy_target, iteration, decoded,
                   similarity, missing_concepts, iterations, result>>
    /\ UNCHANGED io
    /\ UNCHANGED <<compVars, boostVars, gateVars, medVars>>

\* lines 134-136: decode, count the tokens, compression_ratio =
\* decoded_tokens / original_tokens (ZeroDivisionError for an empty message)
DecodeOk ==
    /\ pc = "decode"
    /\ \E d \in DecodedTexts : decoded' = d
    /\ calls' = [calls EXCEPT !.decode = @ + 1]
    /\ pc' = IF cfg.original_tokens = 0 THEN "raised" ELSE "judge"
    /\ UNCHANGED <<cfg, graph, current_entropy_target, iteration, compressed,
                   similarity, missing_concepts, iterations, result>>
    /\ io' = [io EXCEPT !.exception = IF cfg.original_tokens = 0
                                      THEN "ZeroDivisionError" ELSE @]
    /\ UNCHANGED <<compVars, boostVars, gateVars, medVars>>

\* decoder.decode raises: the exception leaves compress()
DecodeRaise ==
    /\ pc = "decode"
    /\ calls' = [calls EXCEPT !.decode = @ + 1]
    /\ pc' = "raised"
    /\ UNCHANGED <<cfg, graph, current_entropy_target, iteration, compressed,
                   decoded, similarity, missing_concepts, iterations, result>>
    /\ io' = [io EXCEPT !.exception = "decode"]
    /\ UNCHANGED <<compVars, boostVars, gateVars, medVars>>

\* lines 140-141: judge.evaluate returns a score
JudgeOk ==
    /\ pc = "judge"
    /\ \E sc \in Scores : similarity' = sc
    /\ calls' = [calls EXCEPT !.judge = @ + 1]
    /\ pc' = "analyze"
    /\ UNCHANGED <<cfg, graph, current_entropy_target, iteration, compressed,
                   decoded, missing_concepts, iterations, result>>
    /\ UNCHANGED io
    /\ UNCHANGED <<compVars, boostVars, gateVars, medVars>>

\* judge.evaluate raises JudgeError: the exception leaves compress()
JudgeRaiseSwallowed ==
    /\ pc = "judge"
    /\ calls' = [calls EXCEPT !.judge = @ + 1]
    /\ similarity' = 0
    /\ pc' = "analyze"
    /\ UNCHANGED <<cfg, graph, current_entropy_target, iteration, compressed,
                   decoded, missing_concepts, iterations, result>>
    /\ io' = [io EXCEPT !.exception = "judge"]
    /\ UNCHANGED <<compVars, boostVars, gateVars, medVars>>

JudgeRaise ==
    /\ pc = "judge"
    /\ calls' = [calls EXCEPT !.judge = @ + 1]
    /\ pc' = "raised"
    /\ UNCHANGED <<cfg, graph, current_entropy_target, iteration, compressed,
                   decoded, similarity, missing_concepts, iterations, result>>
    /\ io' = [io EXCEPT !.exception = "judge"]
    /\ UNCHANGED <<compVars, boostVars, gateVars, medVars>>

\* line 145: missing_concepts = await self._analyze_loss(message, decoded),
\* called in every iteration, right after the judge
AnalyzeLossOnlyWhenRefining ==
    /\ pc = "analyze"
    /\ IF ~HitTarget(similarity, cfg.target_similarity)
          /\ NotLast(iteration, cfg.max_iterations)
       THEN /\ \E mc \in ConceptLists : missing_concepts' = mc
            /\ calls' = [calls EXCEPT !.analyze = @ + 1]
            /\ io' = [io EXCEPT !.loss = "phrases"]
       ELSE /\ missing_concepts' = <<>>
            /\ calls' = calls
            /\ io' = io
    /\ pc' = "record"
    /\ UNCHANGED <<cfg, graph, current_entropy_target, iteration, compressed,
                   decoded, similarity, iterations, result>>
    /\ UNCHANGED <<compVars, boostVars, gateVars, medVars>>

AnalyzeLoss ==
    /\ pc = "analyze"
    /\ \E mc \in ConceptLists : missing_concepts' = mc
    /\ calls' = [calls EXCEPT !.analyze = @ + 1]
    /\ pc' = "record"
    /\ UNCHANGED <<cfg, graph, current_entropy_target, iteration, compressed,
                   decoded, similarity, iterations, result>>
    /\ io' = [io EXCEPT !.loss = "phrases"]
    /\ UNCHANGED <<compVars, boostVars, gateVars, medVars>>

\* _analyze_loss catches every exception of the call, of json.loads and of
\* result.get (the response is not a JSON object) and returns []
AnalyzeLossFail ==
    /\ pc = "analyze"
    /\ missing_concepts' = <<>>
    /\ calls' = [calls EXCEPT !.analyze = @ + 1]
    /\ pc' = "record"
    /\ UNCHANGED <<cfg, graph, current_entropy_target, iteration, compressed,
                   decoded, similarity, iterations, result>>
    /\ io' = [io EXCEPT !.loss = "failed"]
    /\ UNCHANGED <<compVars, boostVars, gateVars, medVars>>

\* the response is a JSON object whose "missing_concepts" is not a list but a
\* number (or another truthy value without len()): result.get returns it
\* as it is, and len(missing_concepts) at line 147, outside any try, raises
\* TypeError, which leaves compress()
AnalyzeLossNotList ==
    /\ pc = "analyze"
    /\ calls' = [calls EXCEPT !.analyze = @ + 1]
    /\ io' = [io EXCEPT !.loss = "not_list", !.exception = "analyze"]
    /\ pc' = "raised"
    /\ UNCHANGED <<cfg, graph, current_entropy_target, iteration, compressed,
                   decoded, similarity, missing_concepts, iterations, result>>
    /\ UNCHANGED <<compVars, boostVars, gateVars, medVars>>

\* "missing_concepts" is a list whose items are not strings: it is returned
\* as it is, printed, and stored in the IterationResult
AnalyzeLossNonStrings ==
    /\ pc = "analyze"
    /\ \E mc \in NonStringLists : missing_concepts' = mc
    /\ calls' = [calls EXCEPT !.analyze = @ + 1]
    /\ io' = [io EXCEPT !.loss = "non_strings"]
    /\ pc' = "record"
    /\ UNCHANGED <<cfg, graph, current_entropy_target, iteration, compressed,
                   decoded, similarity, iterations, result>>
    /\ UNCHANGED <<compVars, boostVars, gateVars, medVars>>

\* lines 152-159: nodes_by_type of the compressed graph
nodes_by_type(g, c) ==
    [t \in {n.node_type : n \in Range(NodesOf(g, c.nodes))} |->
        Cardinality({id \in c.nodes : get_node(g, id).node_type = t})]

\* lines 162-181: the IterationResult of the current iteration
IterationResult ==
    [iteration           |-> iteration,
     entropy_target      |-> current_entropy_target,
     nodes_kept          |-> view_node_count(compressed),
     total_nodes         |-> node_count(graph),
     decoded_tokens      |-> count_tokens(decoded),
     original_tokens     |-> cfg.original_tokens,
     compression_ratio   |-> PerMille(count_tokens(decoded), cfg.original_tokens),
     similarity_score    |-> similarity,
     decoded_message     |-> decoded,
     missing_concepts    |-> missing_concepts,
     graph               |-> compressed,
     total_entropy       |-> total_entropy(graph),
     retained_entropy    |-> view_total_entropy(graph, compressed),
     total_importance    |-> total_importance(graph),
     retained_importance |-> view_total_importance(graph, compressed),
     nodes_by_type       |-> nodes_by_type(graph, compressed),
     avg_node_importance |-> IF view_node_count(compressed) > 0
                             THEN view_total_importance(graph, compressed)
                                     \div view_node_count(compressed)
                             ELSE 0,
     compression_stats   |-> get_compression_stats(graph, compressed)]

\* line 182: iterations.append(iter_result)
RecordTwice ==
    /\ pc = "record"
    /\ iterations' = Append(Append(iterations, IterationResult), IterationResult)
    /\ pc' = "check"
    /\ UNCHANGED <<cfg, graph, current_entropy_target, iteration, compressed,
                   decoded, similarity, missing_concepts, result, calls>>
    /\ UNCHANGED io
    /\ UNCHANGED <<compVars, boostVars, gateVars, medVars>>

Record ==
    /\ pc = "record"
    /\ iterations' = Append(iterations, IterationResult)
    /\ pc' = "check"
    /\ UNCHANGED <<cfg, graph, current_entropy_target, iteration, compressed,
                   decoded, similarity, missing_concepts, result, calls>>
    /\ UNCHANGED io
    /\ UNCHANGED <<compVars, boostVars, gateVars, medVars>>

\* lines 185-195: the target is met, return success
Converged ==
    /\ pc = "check"
    /\ HitTarget(similarity, cfg.target_similarity)
    /\ result' = [returned          |-> TRUE,
                  success           |-> TRUE,
                  iterations        |-> iterations,
                  final_message     |-> decoded,
                  final_similarity  |-> similarity,
                  final_compression |-> PerMille(count_tokens(decoded),
                                                 cfg.original_tokens),
                  original_tokens   |-> cfg.original_tokens,
                  final_tokens      |-> count_tokens(decoded)]
    /\ pc' = "returned"
    /\ UNCHANGED <<cfg, graph, current_entropy_target, iteration, compressed,
                   decoded, similarity, missing_concepts, iterations, calls>>
    /\ UNCHANGED io
    /\ UNCHANGED <<compVars, boostVars, gateVars, medVars>>

\* lines 206-207: the target of the next iteration
RelaxAlways(target, sim, step) == Min(target + step, TargetCap)

Relax(target, sim, step) ==
    IF sim < RelaxBelow THEN Min(target + step, TargetCap) ELSE target

\* lines 198-210: not the last iteration: boost the working graph and relax
\* the target
Refine ==
    /\ pc = "check"
    /\ ~HitTarget(similarity, cfg.target_similarity)
    /\ NotLast(iteration, cfg.max_iterations)
    /\ ~boost_importance(graph, missing_concepts).raised
    /\ graph' = boost_importance(graph, missing_concepts).graph
    /\ calls' = [calls EXCEPT !.boost = @ + 1]
    /\ current_entropy_target' =
          Relax(current_entropy_target, similarity, cfg.entropy_step)
    /\ pc' = "loop"
    /\ UNCHANGED <<cfg, iteration, compressed, decoded, similarity,
                   missing_concepts, iterations, result>>
    /\ UNCHANGED io
    /\ UNCHANGED <<compVars, boostVars, gateVars, medVars>>

\* line 202: _boost_importance raises (concept.lower() on an item that is
\* not a str); the exception leaves compress()
RefineRaise ==
    /\ pc = "check"
    /\ ~HitTarget(similarity, cfg.target_similarity)
    /\ NotLast(iteration, cfg.max_iterations)
    /\ boost_importance(graph, missing_concepts).raised
    /\ calls' = [calls EXCEPT !.boost = @ + 1]
    /\ io' = [io EXCEPT !.exception = "boost"]
    /\ pc' = "raised"
    /\ UNCHANGED <<cfg, graph, current_entropy_target, iteration, compressed,
                   decoded, similarity, missing_concepts, iterations, result>>
    /\ UNCHANGED <<compVars, boostVars, gateVars, medVars>>

\* line 198 is false: nothing is refined after the last allowed iteration
SkipRefine ==
    /\ pc = "check"
    /\ ~HitTarget(similarity, cfg.target_similarity)
    /\ ~NotLast(iteration, cfg.max_iterations)
    /\ pc' = "loop"
    /\ UNCHANGED <<cfg, graph, current_entropy_target, iteration, compressed,
                   decoded, similarity, missing_concepts, iterations, result,
                   calls>>
    /\ UNCHANGED io
    /\ UNCHANGED <<compVars, boostVars, gateVars, medVars>>

\* line 123: the for loop takes its next value
NextIteration ==
    /\ pc = "loop"
    /\ InRange(iteration + 1, cfg.max_iterations)
    /\ iteration' = iteration + 1
    /\ pc' = "compress"
    /\ UNCHANGED <<cfg, graph, current_entropy_target, compressed, decoded,
                   similarity, missing_concepts, iterations, result, calls>>
    /\ UNCHANGED io
    /\ UNCHANGED <<compVars, boostVars, gateVars, medVars>>

\* line 213: final_iter = iterations[-1]
BestIter(its) ==
    CHOOSE r \in Range(its) :
        \A q \in Range(its) : q.similarity_score <= r.similarity_score

FinalIter(its) == its[Len(its)]

\* lines 212-224: the loop is over without success, return the last iteration
Exhausted ==
    /\ pc = "loop"
    /\ ~InRange(iteration + 1, cfg.max_iterations)
    /\ LET final_iter == FinalIter(iterations)
       IN  result' = [returned          |-> TRUE,
                      success           |-> FALSE,
                      iterations        |-> iterations,
                      final_message     |-> final_iter.decoded_message,
                      final_similarity  |-> final_iter.similarity_score,
                      final_compression |-> final_iter.compression_ratio,
                      original_tokens   |-> cfg.original_tokens,
                      final_tokens      |-> final_iter.decoded_tokens]
    /\ pc' = "returned"
    /\ UNCHANGED <<cfg, graph, current_entropy_target, iteration, compressed,
                   decoded, similarity, missing_concepts, iterations, calls>>
    /\ UNCHANGED io
    /\ UNCHANGED <<compVars, boostVars, gateVars, medVars>>

----------------------------------------------------------------------------
(* events.py : SyncEventEmitter.emit;  compression.py : CompressionEngine *)

\* a text is the sequence of its tokens; Tokenizer.count_tokens is its length
Tokens == {"a", "b"}
Texts == UNION {[1..n -> Tokens] : n \in 0..MaxTokens}
CountTokens(text) == Len(text)

\* SyncEventEmitter.emit calls every handler inside try/except Exception:
\* whether an exception of a handler leaves emit()
EmitUncaught(handler_raises) == handler_raises

EmitEscapes(handler_raises) == FALSE

\* self._emit(payload): the event reaches the handlers when an emitter is
\* configured
Emit(log, emitter, event) == IF emitter THEN Append(log, event) ELSE log

\* Compressor implementations: "any" may return any text, "same" returns
\* its input (NoImprovementCompressor), "half" keeps the first half of the
\* tokens, at least one (MockCompressor)
CompressorKinds == {"any", "same", "half"}

CompressorOutputs(kind, text) ==
    CASE kind = "same" -> {text}
      [] kind = "half" ->
            IF text = <<>> THEN {text}
            ELSE {SubSeq(text, 1, Max(1, Len(text) \div 2))}
      [] OTHER -> Texts

NoEngineResult == [returned |-> FALSE]

EngineIdle ==
    [pc |-> "idle", budget |-> 0, max_passes |-> 0, compressor |-> "same",
     emitter |-> FALSE, handler_raises |-> FALSE,
     text |-> <<>>, original_tokens |-> 0, current_text |-> <<>>,
     current_tokens |-> 0, passes |-> 0, log |-> <<>>, calls |-> 0,
     compressor_raised |-> FALSE, result |-> NoEngineResult]

\* CompressionEngine(compressor, tokenizer, budget, max_passes, event_emitter)
\* at the call compress_to_budget(text)
EngineCall(text, budget, max_passes, compressor, emitter, handler_raises) ==
    [EngineIdle EXCEPT !.pc = "start", !.budget = budget,
                       !.max_passes = max_passes, !.compressor = compressor,
                       !.emitter = emitter, !.handler_raises = handler_raises,
                       !.text = text]

CompressionResult(e) ==
    [returned        |-> TRUE,
     compressed_text |-> e.current_text,
     original_tokens |-> e.original_tokens,
     final_tokens    |-> e.current_tokens,
     passes          |-> e.passes,
     log             |-> e.log]

\* the loop stops as soon as a pass brings no improvement
NoImprovementLoose(new_tokens, current_tokens) == new_tokens > current_tokens

NoImprovement(new_tokens, current_tokens) == new_tokens >= current_tokens

\* while passes < self.max_passes and current_tokens > self.budget
LoopGuardOneMore(e) ==
    e.passes <= e.max_passes /\ e.current_tokens > e.budget

LoopGuard(e) == e.passes < e.max_passes /\ e.current_tokens > e.budget

\* count the tokens; text already within the budget is returned at once
EngineStartAlwaysLoops ==
    /\ engine.pc = "start"
    /\ LET n == CountTokens(engine.text)
           e == [engine EXCEPT !.original_tokens = n,
                               !.current_text = engine.text,
                               !.current_tokens = n]
       IN  engine' = [e EXCEPT !.pc = "loop"]
    /\ UNCHANGED <<mediator, emitted>>
    /\ UNCHANGED <<pipeVars, compVars, boostVars, gateVars>>

EngineStart ==
    /\ engine.pc = "start"
    /\ LET n == CountTokens(engine.text)
           e == [engine EXCEPT !.original_tokens = n,
                               !.current_text = engine.text,
                               !.current_tokens = n]
       IN  engine' = IF n <= e.budget
                     THEN [e EXCEPT !.pc = "returned",
                                    !.result = [CompressionResult(e) EXCEPT
                                                   !.compressed_text = e.text,
                                                   !.passes = 0,
                                                   !.log = <<>>]]
                     ELSE [e EXCEPT !.pc = "loop"]
    /\ UNCHANGED <<mediator, emitted>>
    /\ UNCHANGED <<pipeVars, compVars, boostVars, gateVars>>

\* one turn of the while loop: compress, count, break without recording
\* when the pass brings no improvement, else record the step, count the pass
\* and emit COMPRESSION_PASS
EnginePass ==
    /\ engine.pc = "loop"
    /\ LoopGuard(engine)
    /\ \E output \in CompressorOutputs(engine.compressor, engine.current_text) :
          LET new_tokens == CountTokens(output)
              step == [input_tokens  |-> engine.current_tokens,
                       output_tokens |-> new_tokens,
                       input_text    |-> engine.current_text,
                       output_text   |-> output]
          IN  IF NoImprovement(new_tokens, engine.current_tokens)
              THEN /\ engine' = [engine EXCEPT !.pc = "break",
                                               !.calls = @ + 1]
                   /\ emitted' = emitted
              ELSE /\ engine' = [engine EXCEPT
                                    !.log = Append(@, step),
                                    !.current_text = output,
                                    !.current_tokens = new_tokens,
                                    !.passes = @ + 1,
                                    !.calls = @ + 1,
                                    !.pc = IF engine.emitter
                                              /\ EmitEscapes(engine.handler_raises)
                                           THEN "raised" ELSE "loop"]
                   /\ emitted' = Emit(emitted, engine.emitter, "COMPRESSION_PASS")
    /\ UNCHANGED mediator
    /\ UNCHANGED <<pipeVars, compVars, boostVars, gateVars>>

\* self.compressor.compress(current_text) raises: the exception leaves
\* compress_to_budget
EngineCompressRaise ==
    /\ engine.pc = "loop"
    /\ LoopGuard(engine)
    /\ engine' = [engine EXCEPT !.pc = "raised", !.calls = @ + 1,
                                !.compressor_raised = TRUE]
    /\ UNCHANGED <<mediator, emitted>>
    /\ UNCHANGED <<pipeVars, compVars, boostVars, gateVars>>

\* the loop is over (its condition is false, or break): return the result
EngineReturn ==
    /\ \/ engine.pc = "break"
       \/ engine.pc = "loop" /\ ~LoopGuard(engine)
    /\ engine' = [engine EXCEPT !.pc = "returned",
                                !.result = CompressionResult(engine)]
    /\ UNCHANGED <<mediator, emitted>>
    /\ UNCHANGED <<pipeVars, compVars, boostVars, gateVars>>

\* the engine used on its own
EInit ==
    /\ \E text \in Texts, budget \in 0..MaxTokens, max_passes \in 0..MaxPasses,
          compressor \in CompressorKinds, emitter \in BOOLEAN :
          engine = EngineCall(text, budget, max_passes, compressor, emitter,
                              FALSE)
    /\ emitted = <<>>

----------------------------------------------------------------------------
(* mediator.py : Mediator.process *)

NoMediatorResult == [returned |-> FALSE]

MediatorIdle ==
    [pc |-> "idle", message |-> <<>>,
     compression_enabled |-> FALSE, token_budget |-> 1, max_recursion |-> 1,
     compressor |-> "same", semantic_keys_enabled |-> FALSE,
     judge_enabled |-> FALSE, has_judge |-> FALSE, emitter |-> FALSE,
     handler_raises |-> FALSE,
     current_text |-> <<>>, compression |-> "none", extraction |-> "none",
     judge |-> "none", failed |-> "none", extractor_raised |-> FALSE,
     result |-> NoMediatorResult]

\* MediatorConfig (token_budget and max_recursion are validated gt=0) and
\* the collaborators given to Mediator(...)
MediatorSetups ==
    [message : Texts,
     compression_enabled : BOOLEAN, token_budget : {1, MaxTokens - 1},
     max_recursion : {1, MaxPasses}, compressor : {"any", "half"},
     semantic_keys_enabled : BOOLEAN, judge_enabled : BOOLEAN,
     has_judge : BOOLEAN, emitter : {TRUE}, handler_raises : BOOLEAN]

MInit ==
    /\ \E c \in MediatorSetups :
          mediator = [MediatorIdle EXCEPT
              !.pc = "start", !.message = c.message,
              !.compression_enabled = c.compression_enabled,
              !.token_budget = c.token_budget,
              !.max_recursion = c.max_recursion,
              !.compressor = c.compressor,
              !.semantic_keys_enabled = c.semantic_keys_enabled,
              !.judge_enabled = c.judge_enabled,
              !.has_judge = c.has_judge,
              !.emitter = c.emitter,
              !.handler_raises = c.handler_raises]
    /\ engine = EngineIdle
    /\ emitted = <<>>

MIdle ==
    /\ mediator = MediatorIdle
    /\ engine = EngineIdle
    /\ emitted = <<>>

\* whether an exception of a handler leaves self._emit(...)
Escapes == mediator.emitter /\ EmitEscapes(mediator.handler_raises)

\* the catch-all of process(): PIPELINE_ERROR is emitted and an error result
\* of stage "pipeline" returned
PipelineFailure(m) ==
    [m EXCEPT !.pc = "returned", !.failed = "pipeline",
              !.result = [returned |-> TRUE, success |-> FALSE,
                          compression |-> "none", extraction |-> "none",
                          judge |-> "none", error |-> "pipeline"]]

\* _create_error_result(stage, ..., compression=...)
ErrorResult(m, stage, compression) ==
    [m EXCEPT !.pc = "returned", !.failed = stage,
              !.result = [returned |-> TRUE, success |-> FALSE,
                          compression |-> compression, extraction |-> "none",
                          judge |-> "none", error |-> stage]]

\* count the tokens of the message and emit MESSAGE_RECEIVED
MReceive ==
    /\ mediator.pc = "start"
    /\ emitted' = Emit(emitted, mediator.emitter, "MESSAGE_RECEIVED")
    /\ mediator' = IF Escapes
                   THEN PipelineFailure(mediator)
                   ELSE [mediator EXCEPT !.pc = "stage1",
                                         !.current_text = mediator.message]
    /\ UNCHANGED engine
    /\ UNCHANGED <<pipeVars, compVars, boostVars, gateVars>>

\* stage 1 is enabled: emit COMPRESSION_START and call
\* self.compression_engine.compress_to_budget(current_text)
MCompressionStart ==
    /\ mediator.pc = "stage1"
    /\ mediator.compression_enabled
    /\ emitted' = Emit(emitted, mediator.emitter, "COMPRESSION_START")
    /\ IF Escapes
       THEN /\ mediator' = PipelineFailure(mediator)
            /\ engine' = engine
       ELSE /\ mediator' = [mediator EXCEPT !.pc = "compressing"]
            /\ engine' = EngineCall(mediator.current_text,
                                    mediator.token_budget,
                                    mediator.max_recursion,
                                    mediator.compressor, mediator.emitter,
                                    mediator.handler_raises)
    /\ UNCHANGED <<pipeVars, compVars, boostVars, gateVars>>

\* stage 1 is disabled
MCompressionSkip ==
    /\ mediator.pc = "stage1"
    /\ ~mediator.compression_enabled
    /\ mediator' = [mediator EXCEPT !.pc = "stage2"]
    /\ UNCHANGED <<engine, emitted>>
    /\ UNCHANGED <<pipeVars, compVars, boostVars, gateVars>>

\* compress_to_budget has returned: take its text, emit COMPRESSION_COMPLETE
MCompressionComplete ==
    /\ mediator.pc = "compressing"
    /\ engine.pc = "returned"
    /\ emitted' = Emit(emitted, mediator.emitter, "COMPRESSION_COMPLETE")
    /\ mediator' =
          IF Escapes
          THEN ErrorResult(mediator, "compression", "none")
          ELSE [mediator EXCEPT !.pc = "stage2",
                                !.current_text = engine.result.compressed_text,
                                !.compression = "done"]
    /\ UNCHANGED engine
    /\ UNCHANGED <<pipeVars, compVars, boostVars, gateVars>>

\* compress_to_budget has raised: emit PIPELINE_ERROR, return the error
MCompressionError ==
    /\ mediator.pc = "compressing"
    /\ engine.pc = "raised"
    /\ emitted' = Emit(emitted, mediator.emitter, "PIPELINE_ERROR")
    /\ mediator' = ErrorResult(mediator, "compression", "none")
    /\ UNCHANGED engine
    /\ UNCHANGED <<pipeVars, compVars, boostVars, gateVars>>

\* stage 2 is enabled and the extractor returns: EXTRACTION_START,
\* extract(current_text), EXTRACTION_COMPLETE
MExtract ==
    /\ mediator.pc = "stage2"
    /\ mediator.semantic_keys_enabled
    /\ emitted' = Emit(Emit(emitted, mediator.emitter, "EXTRACTION_START"),
                       mediator.emitter, "EXTRACTION_COMPLETE")
    /\ mediator' =
          IF Escapes
          THEN PipelineFailure(mediator)
          ELSE [mediator EXCEPT !.pc = "stage3", !.extraction = "done"]
    /\ UNCHANGED engine
    /\ UNCHANGED <<pipeVars, compVars, boostVars, gateVars>>

\* stage 2 is enabled and the extractor raises: EXTRACTION_START,
\* PIPELINE_ERROR, the error result keeps the compression result
MExtractError ==
    /\ mediator.pc = "stage2"
    /\ mediator.semantic_keys_enabled
    /\ emitted' = Emit(Emit(emitted, mediator.emitter, "EXTRACTION_START"),
                       mediator.emitter, "PIPELINE_ERROR")
    /\ mediator' =
          [(IF Escapes
            THEN PipelineFailure(mediator)
            ELSE ErrorResult(mediator, "extraction", mediator.compression))
           EXCEPT !.extractor_raised = TRUE]
    /\ UNCHANGED engine
    /\ UNCHANGED <<pipeVars, compVars, boostVars, gateVars>>

\* stage 2 is disabled
MExtractSkip ==
    /\ mediator.pc = "stage2"
    /\ ~mediator.semantic_keys_enabled
    /\ mediator' = [mediator EXCEPT !.pc = "stage3"]
    /\ UNCHANGED <<engine, emitted>>
    /\ UNCHANGED <<pipeVars, compVars, boostVars, gateVars>>

\* the judge is enabled and given: JUDGE_START; with an extraction result
\* the judge is called and either returns (JUDGE_COMPLETE) or raises, which
\* is swallowed; then PIPELINE_COMPLETE and the success result
MJudgeAndComplete ==
    /\ mediator.pc = "stage3"
    /\ mediator.judge_enabled /\ mediator.has_judge
    /\ \E outcome \in IF mediator.extraction = "done"
                      THEN {"done", "raised"} ELSE {"none"} :
          /\ emitted' =
                LET started == Emit(emitted, mediator.emitter, "JUDGE_START")
                    judged  == IF outcome = "done"
                               THEN Emit(started, mediator.emitter,
                                         "JUDGE_COMPLETE")
                               ELSE started
                IN  Emit(judged, mediator.emitter, "PIPELINE_COMPLETE")
          /\ mediator' =
                IF Escapes
                THEN PipelineFailure(mediator)
                ELSE LET judge == IF outcome = "done" THEN "done" ELSE "none"
                     IN  [mediator EXCEPT
                            !.pc = "returned", !.judge = judge,
                            !.result = [returned    |-> TRUE,
                                        success     |-> TRUE,
                                        compression |-> mediator.compression,
                                        extraction  |-> mediator.extraction,
                                        judge       |-> judge,
                                        error       |-> "none"]]
    /\ UNCHANGED engine
    /\ UNCHANGED <<pipeVars, compVars, boostVars, gateVars>>

\* no judge stage: PIPELINE_COMPLETE and the success result
MComplete ==
    /\ mediator.pc = "stage3"
    /\ ~(mediator.judge_enabled /\ mediator.has_judge)
    /\ emitted' = Emit(emitted, mediator.emitter, "PIPELINE_COMPLETE")
    /\ mediator' =
          IF Escapes
          THEN PipelineFailure(mediator)
          ELSE [mediator EXCEPT
                  !.pc = "returned",
                  !.result = [returned    |-> TRUE,
                              success     |-> TRUE,
                              compression |-> mediator.compression,
                              extraction  |-> mediator.extraction,
                              judge       |-> "none",
                              error       |-> "none"]]
    /\ UNCHANGED engine
    /\ UNCHANGED <<pipeVars, compVars, boostVars, gateVars>>

----------------------------------------------------------------------------
(* Specifications *)

\* one run of IterativeGraphPipeline.compress
Init == PInit /\ CIdle /\ BIdle /\ GIdle /\ MIdle

Next ==
    \/ EncodeOk
    \/ EncodeRaise
    \/ CompressStep
    \/ DecodeOk
    \/ DecodeRaise
    \/ JudgeOk
    \/ JudgeRaise
    \/ AnalyzeLoss
    \/ AnalyzeLossFail
    \/ AnalyzeLossNotList
    \/ AnalyzeLossNonStrings
    \/ Record
    \/ Converged
    \/ Refine
    \/ RefineRaise
    \/ SkipRefine
    \/ NextIteration
    \/ Exhausted

Spec == Init /\ [][Next]_vars

\* calls of GraphCompressor.compress on one graph
CompressInit == CInit /\ PIdle /\ BIdle /\ GIdle /\ MIdle

CompressNext == CompressCall

CompressSpec == CompressInit /\ [][CompressNext]_vars

\* successive calls of _boost_importance on one graph
BoostInit == BInit /\ PIdle /\ CIdle /\ GIdle /\ MIdle

BoostNext == BoostCall

BoostSpec == BoostInit /\ [][BoostNext]_vars

\* concurrent callers of GroqClient.chat on one client
GateInit == GInit /\ PIdle /\ CIdle /\ BIdle /\ MIdle

GateNext ==
    \/ \E c \in Callers : CallChat(c)
    \/ \E c \in Callers : LockGranted(c)
    \/ \E c \in Callers : Wake(c)
    \/ Tick
    \/ \E c \in Callers : CreateOk(c)
    \/ \E c \in Callers : CreateError(c)
    \/ \E c \in Callers : CreateRateLimited(c)

GateSpec == GateInit /\ [][GateNext]_vars

\* one call of CompressionEngine.compress_to_budget
EngineNext ==
    \/ EngineStart
    \/ EnginePass
    \/ EngineCompressRaise
    \/ EngineReturn

EngineInit ==
    /\ EInit /\ mediator = MediatorIdle
    /\ PIdle /\ CIdle /\ BIdle /\ GIdle

EngineSpec == EngineInit /\ [][EngineNext]_vars

\* the loop of compress_to_budget is ordinary sequential code: it goes on
\* as long as it has a next statement
EngineLiveSpec == EngineSpec /\ WF_vars(EngineNext)

\* one run of Mediator.process
MediatorInit == MInit /\ PIdle /\ CIdle /\ BIdle /\ GIdle

MediatorNext ==
    \/ MReceive
    \/ MCompressionStart
    \/ MCompressionSkip
    \/ EngineStart
    \/ EnginePass
    \/ EngineCompressRaise
    \/ EngineReturn
    \/ MCompressionComplete
    \/ MCompressionError
    \/ MExtract
    \/ MExtractError
    \/ MExtractSkip
    \/ MJudgeAndComplete
    \/ MComplete

MediatorSpec == MediatorInit /\ [][MediatorNext]_vars

----------------------------------------------------------------------------
(* Properties of a pipeline run *)

Returned == result.returned

Recs == IF Returned THEN result.iterations ELSE iterations

\* C1: with max_iterations >= 1, whatever the judge answers, no step of the
\* run takes the loop beyond iteration max_iterations: the loop variable, the
\* number of records and the number of compressions, reconstructions and
\* scorings stay at most max_iterations, and when the loop has used up
\* iteration max_iterations the next step returns the result.
C1_AtMostMaxIterations ==
    [][cfg.max_iterations >= 1 =>
          /\ iteration' <= cfg.max_iterations
          /\ Len(iterations') <= cfg.max_iterations
          /\ calls'.compress <= cfg.max_iterations
          /\ calls'.decode <= cfg.max_iterations
          /\ calls'.judge <= cfg.max_iterations
          /\ (pc = "loop" /\ iteration = cfg.max_iterations
                => pc' = "returned" /\ result'.returned)]_vars

\* a judge that always returns 0: the run used all its iterations and returned
C1_Witness ==
    /\ Returned
    /\ ~result.success
    /\ cfg.max_iterations = MaxIter
    /\ Len(result.iterations) = cfg.max_iterations
    /\ \A i \in DOMAIN result.iterations :
          result.iterations[i].similarity_score = 0

\* C2: a record whose similarity reaches the target is the last record of the
\* run, the run returns at once with success, with exactly that many records
\* and the final fields of that iteration, and the compressor, the decoder
\* and the judge have been called once per record and not again.
C2_FirstCrossingReturned ==
    /\ \A i \in DOMAIN iterations :
          iterations[i].similarity_score >= cfg.target_similarity
             => /\ i = Len(iterations)
                /\ pc \in {"check", "returned"}
                /\ pc = "returned" => Returned /\ result.success
    /\ (Returned /\ result.success) =>
          LET k == Len(result.iterations)
              r == result.iterations[k]
          IN  /\ k >= 1
              /\ r.iteration = k
              /\ r.similarity_score >= cfg.target_similarity
              /\ \A i \in 1..(k-1) :
                    result.iterations[i].similarity_score < cfg.target_similarity
              /\ result.final_message = r.decoded_message
              /\ result.final_similarity = r.similarity_score
              /\ result.final_compression = r.compression_ratio
              /\ calls.compress = k
              /\ calls.decode = k
              /\ calls.judge = k

\* success at iteration 2 of 3, with a score exactly at the target
C2_Witness ==
    /\ Returned
    /\ result.success
    /\ Len(result.iterations) = 2
    /\ cfg.max_iterations = 3
    /\ result.final_similarity = cfg.target_similarity
    /\ result.iterations[1].decoded_message # result.final_message

\* C3: a run that returns without success has executed max_iterations
\* iterations, none of which reached the target, and its final fields are
\* those of the last record, whatever the earlier records scored.
C3_ExhaustedReturnsLast ==
    (Returned /\ ~result.success) =>
        LET n == Len(result.iterations)
            last == result.iterations[n]
        IN  /\ n = cfg.max_iterations
            /\ last.iteration = cfg.max_iterations
            /\ \A i \in 1..n :
                  result.iterations[i].similarity_score < cfg.target_similarity
            /\ result.final_message = last.decoded_message
            /\ result.final_similarity = last.similarity_score
            /\ result.final_compression = last.compression_ratio
            /\ result.final_tokens = last.decoded_tokens

\* exhausted run whose first iteration scored higher than its last one
C3_Witness ==
    /\ Returned
    /\ ~result.success
    /\ Len(result.iterations) >= 2
    /\ result.iterations[1].similarity_score > result.final_similarity
    /\ result.iterations[1].decoded_message # result.final_message
    /\ result.iterations[1].decoded_tokens # result.final_tokens

\* the units of g and h agree on everything but importance
SameUnits(g, h) ==
    /\ Len(g.nodes) = Len(h.nodes)
    /\ \A i \in DOMAIN g.nodes :
          /\ g.nodes[i].id = h.nodes[i].id
          /\ g.nodes[i].node_type = h.nodes[i].node_type
          /\ g.nodes[i].entropy = h.nodes[i].entropy
          /\ g.nodes[i].content = h.nodes[i].content

\* C4: the extractor is called exactly once per run; the graph every
\* compression reads still holds all the extracted units (only importance
\* may differ), every compressed graph is drawn from it, and total_nodes is
\* the same in every record.
C4_OneExtractionPersistentGraph ==
    /\ calls.extract <= 1
    /\ pc # "start" => calls.extract = 1
    /\ calls.compress >= 1 =>
          /\ \E g \in ExtractedGraphs : SameUnits(g, graph)
          /\ compressed.nodes \subseteq NodeIds(graph)
    /\ \A i \in DOMAIN iterations :
          /\ iterations[i].total_nodes = node_count(graph)
          /\ iterations[i].graph.nodes \subseteq NodeIds(graph)

\* a unit dropped by iteration 1 is kept by iteration 2
C4_Witness ==
    /\ Len(iterations) >= 2
    /\ \E id \in NodeIds(graph) :
          /\ id \notin iterations[1].graph.nodes
          /\ id \in iterations[2].graph.nodes
    /\ iterations[1].total_nodes = iterations[2].total_nodes

\* C5 as stated: the loss analyzer is called only in an iteration that did
\* not reach the target and is not the last allowed one.
C5_AnalyzerOnlyWhenRefining ==
    [][calls'.analyze > calls.analyze =>
          /\ similarity < cfg.target_similarity
          /\ iteration < cfg.max_iterations]_vars

\* C5 (amended): the loss analyzer is called exactly once in every iteration
\* whose score was obtained, before the convergence decision, the converging
\* iteration and iteration max_iterations included; every record of a
\* returned run stands for one call.
C5_AnalyzerEveryIteration ==
    /\ pc \notin {"analyze", "raised"} => calls.analyze = calls.judge
    /\ pc \in {"check", "loop", "returned"} => calls.analyze = Len(iterations)
    /\ Returned => calls.analyze = Len(result.iterations)

\* the analyzer ran in the converging iteration, which is also the last allowed
C5_Witness ==
    /\ Returned
    /\ result.success
    /\ Len(result.iterations) = cfg.max_iterations
    /\ calls.analyze = cfg.max_iterations
    /\ result.iterations[Len(result.iterations)].missing_concepts # <<>>

\* C6: between two consecutive records the entropy target grows by
\* entropy_step, capped at 0.95, when the earlier similarity was below 0.70,
\* and stays the same otherwise; the target held for the coming iteration
\* obeys the same rule.
NextTarget(t, sim) ==
    IF sim < 70
    THEN (IF t + cfg.entropy_step <= 95 THEN t + cfg.entropy_step ELSE 95)
    ELSE t

C6_RelaxRule ==
    /\ \A k \in 1..(Len(iterations) - 1) :
          iterations[k + 1].entropy_target =
             NextTarget(iterations[k].entropy_target,
                        iterations[k].similarity_score)
    /\ (pc \in {"compress", "decode", "judge", "analyze", "record"}
           /\ iteration >= 2) =>
          current_entropy_target =
             NextTarget(iterations[iteration - 1].entropy_target,
                        iterations[iteration - 1].similarity_score)

\* a relaxation that hit the cap, followed by an iteration that kept the target
C6_Witness ==
    /\ Len(iterations) = 3
    /\ iterations[1].similarity_score < 70
    /\ iterations[1].entropy_target + cfg.entropy_step > 95
    /\ iterations[2].entropy_target = 95
    /\ iterations[2].similarity_score = 70
    /\ iterations[2].similarity_score < cfg.target_similarity
    /\ iterations[3].entropy_target = 95

----------------------------------------------------------------------------
(* Properties of GraphCompressor.compress *)

Called == c_out.called

COutEntropy == view_total_entropy(c_graph, c_out.graph)

CTarget100 == total_entropy(c_graph) * c_ratio

PreservedEntropy ==
    SumEntropy(SelectSeq(c_graph.nodes, LAMBDA n : n.node_type \in c_preserve))

\* C7: every unit of the graph whose kind is in the preserve set is a unit
\* of the compressed graph, for every ratio, also when the preserved units
\* alone weigh more than the budget.
C7_PreservedKept ==
    Called =>
        \A i \in DOMAIN c_graph.nodes :
            c_graph.nodes[i].node_type \in c_preserve
               => c_graph.nodes[i].id \in c_out.graph.nodes

\* the preserved units alone exceed the budget, and a non-preserved unit was dropped
C7_Witness ==
    /\ Called
    /\ \E i \in DOMAIN c_graph.nodes : c_graph.nodes[i].node_type \in c_preserve
    /\ PreservedEntropy * 100 > CTarget100
    /\ c_out.graph.nodes # NodeIds(c_graph)

\* no unit outside the preserve set has importance above 0.9
NoEscapePossible ==
    \A i \in DOMAIN c_graph.nodes :
        c_graph.nodes[i].node_type \notin c_preserve
           => c_graph.nodes[i].importance <= 900

\* C8 as stated: when the escape valve cannot fire, a call with a larger
\* ratio never returns fewer units than the call before it.
C8_MonotoneUnitCount ==
    [][(Called /\ NoEscapePossible /\ c_ratio < c_ratio')
          => Cardinality(c_out.graph.nodes)
                <= Cardinality(c_out'.graph.nodes)]_vars

\* the non-preserved units in the order the walk visits them never get
\* cheaper: a more important unit has no more entropy than a less important one
WalkEntropyNonDecreasing ==
    LET w == SortedDesc(SelectSeq(c_graph.nodes,
                            LAMBDA n : n.node_type \notin c_preserve))
    IN  \A i, j \in DOMAIN w : i < j => w[i].entropy <= w[j].entropy

\* C8 (amended): when the escape valve cannot fire and no unit is visited
\* after a unit of higher entropy, a call with a larger ratio never returns
\* fewer units than the call before it.
C8_MonotoneWhenEntropyOrdered ==
    [][(Called /\ NoEscapePossible /\ WalkEntropyNonDecreasing
          /\ c_ratio < c_ratio')
          => Cardinality(c_out.graph.nodes)
                <= Cardinality(c_out'.graph.nodes)]_vars

\* a call that kept strictly more units than a smaller ratio keeps, and
\* still dropped one
C8_Witness ==
    /\ Called
    /\ NoEscapePossible
    /\ WalkEntropyNonDecreasing
    /\ c_out.graph.nodes # NodeIds(c_graph)
    /\ \E r \in Ratios :
          /\ r < c_ratio
          /\ Cardinality(Compress(c_graph, r, c_preserve).nodes)
                < Cardinality(c_out.graph.nodes)
    /\ \E i, j \in DOMAIN c_graph.nodes :
          /\ c_graph.nodes[i].node_type \notin c_preserve
          /\ c_graph.nodes[j].node_type \notin c_preserve
          /\ c_graph.nodes[i].entropy # c_graph.nodes[j].entropy

\* C9: every relation of the compressed graph has both endpoints among its
\* units, and its relations are exactly the relations of the original whose
\* two endpoints were kept, in the original order.
C9_RelationsClosed ==
    Called =>
        /\ \A i \in DOMAIN c_out.graph.edges :
              /\ c_out.graph.edges[i].source \in c_out.graph.nodes
              /\ c_out.graph.edges[i].target \in c_out.graph.nodes
        /\ c_out.graph.edges =
              SelectSeq(c_graph.edges,
                        LAMBDA e : /\ e.source \in c_out.graph.nodes
                                   /\ e.target \in c_out.graph.nodes)

\* one relation lost an endpoint and was dropped, another one was kept
C9_Witness ==
    /\ Called
    /\ c_out.graph.edges # <<>>
    /\ Len(c_out.graph.edges) < Len(c_graph.edges)
    /\ \E i \in DOMAIN c_graph.edges :
          /\ c_graph.edges[i].source \in c_out.graph.nodes
          /\ c_graph.edges[i].target \notin c_out.graph.nodes

EscapedEntropy == SumEntropy(NodesOf(c_graph, c_out.walk.escaped))

\* C10 as stated: the entropy of the compressed graph without the units let
\* in by the escape valve is at most total_entropy * ratio.
C10_WithinBudget ==
    Called => (COutEntropy - EscapedEntropy) * 100 <= CTarget100

\* C10 (amended): the entropy of the compressed graph without the units let
\* in by the escape valve is at most total_entropy * ratio or, when the
\* preserved units alone exceed that budget, the entropy of the preserved
\* units.
C10_WithinBudgetOrPreserved ==
    Called =>
        \/ (COutEntropy - EscapedEntropy) * 100 <= CTarget100
        \/ /\ PreservedEntropy * 100 > CTarget100
           /\ COutEntropy - EscapedEntropy = PreservedEntropy

\* the escape valve fired and units were also admitted within the budget
C10_Witness ==
    /\ Called
    /\ c_out.walk.escaped # {}
    /\ COutEntropy - EscapedEntropy > PreservedEntropy
    /\ COutEntropy * 100 > CTarget100
    /\ c_out.graph.nodes # NodeIds(c_graph)

\* C11: the units of the compressed graph are units of the original, so it
\* has at most as many units as the original.
C11_UnitsSubset ==
    Called =>
        /\ c_out.graph.nodes \subseteq NodeIds(c_graph)
        /\ Cardinality(c_out.graph.nodes) <= node_count(c_graph)

\* a proper, non-empty subset of the units of a graph without an intent unit
C11_Witness ==
    /\ Called
    /\ c_ratio \in Ratios
    /\ c_out.graph.nodes # {}
    /\ c_out.graph.nodes # NodeIds(c_graph)
    /\ c_graph.root_id = NoRoot

\* C12: a call of compress leaves the argument graph as it was: the same
\* units in the same order with the same importance, entropy, kind and
\* content, the same relation sequence and the same root id.
C12_InputUnchanged ==
    [][Called' =>
          /\ c_graph'.nodes = c_graph.nodes
          /\ c_graph'.edges = c_graph.edges
          /\ c_graph'.root_id = c_graph.root_id]_vars

\* a call that dropped units and relations from its result
C12_Witness ==
    /\ Called
    /\ c_out.graph.nodes # NodeIds(c_graph)
    /\ Len(c_out.graph.edges) < Len(c_graph.edges)
    /\ c_graph.root_id \notin c_out.graph.nodes

\* the call had a negative ratio or a graph of total entropy zero
InvalidInput == c_ratio < 0 \/ total_entropy(c_graph) = 0

\* C14: a call with a negative ratio, or on a graph whose total entropy is
\* zero, raises a validation error and returns no graph.
C14_InvalidInputRejected ==
    (Called /\ InvalidInput) =>
        /\ c_out.raised
        /\ c_out.graph = NoOut.graph

\* C13: a graph returned by compress shares no mutable state with its source:
\* a later boost of the working graph changes the importance of no unit of a
\* compressed graph already stored in an iteration record (the units of a
\* compressed graph are the node objects of the working graph, so their
\* importance is read there).
C13_RecordGraphKeepsImportance ==
    [][\A k \in DOMAIN iterations :
          \A id \in iterations[k].graph.nodes :
              get_node(graph', id).importance = get_node(graph, id).importance]_vars

\* C15: _boost_importance(G, []) returns 0 and leaves the importance of every
\* unit of G unchanged.
C15_EmptyListNoBoost ==
    [][(b_calls' = b_calls + 1 /\ b_concepts' = <<>>) =>
          /\ b_count' = 0
          /\ \A i \in DOMAIN b_graph.nodes :
                b_graph'.nodes[i].importance = b_graph.nodes[i].importance]_vars

\* a call with the empty list has returned 0 on a graph that has a unit a
\* boost could raise
C15_Witness ==
    /\ b_calls > 0
    /\ b_concepts = <<>>
    /\ b_count = 0
    /\ \E i \in DOMAIN b_graph.nodes :
          /\ b_graph.nodes[i].importance > 0
          /\ b_graph.nodes[i].importance < ImportanceOne

\* C16: after any sequence of boost calls with any lists, on a graph whose
\* units start with importance in [0, 1], every importance is at most 1.0.
C16_ImportanceAtMostOne ==
    \A i \in DOMAIN b_graph.nodes :
        /\ b_graph.nodes[i].importance <= ImportanceOne
        /\ b_graph.nodes[i].importance >= 0

\* after several calls the last one has raised a unit, and every unit is at 1.0
C16_Witness ==
    /\ b_calls >= 2
    /\ b_count >= 1
    /\ \A i \in DOMAIN b_graph.nodes :
          b_graph.nodes[i].importance = ImportanceOne

LossFailures == {"failed", "not_list", "non_strings"}

\* C17: a loss analyzer failure (the call raises, or the response cannot be
\* parsed into a list of phrases) never aborts the run: the iteration goes on
\* to its record with an empty missing-concept list, and the step after the
\* record boosts no unit and does not raise.
C17_LossFailureNeverAborts ==
    [][/\ (pc = "analyze" /\ io'.loss \in LossFailures) =>
              (pc' = "record" /\ missing_concepts' = <<>>)
       /\ (pc = "check" /\ io.loss \in LossFailures) =>
              (pc' # "raised" /\ graph' = graph)]_vars

\* C18: when the decoder or the judge fails in iteration k the exception
\* leaves compress(): no record for iteration k, no result, the failed call
\* was made once, and no collaborator is called after it.
C18_DecodeJudgeFailurePropagates ==
    io.exception \in {"decode", "judge"} =>
        /\ pc = "raised"
        /\ ~Returned
        /\ Len(iterations) = iteration - 1
        /\ calls.extract = 1
        /\ calls.compress = iteration
        /\ calls.decode = iteration
        /\ calls.judge = IF io.exception = "decode" THEN iteration - 1
                                                    ELSE iteration
        /\ calls.analyze = iteration - 1
        /\ calls.boost = iteration - 1

\* the judge has failed in the second iteration
C18_Witness ==
    /\ io.exception = "judge"
    /\ iteration = 2
    /\ Len(iterations) = 1

\* C19: whenever the extractor's response is unparseable or is not the
\* expected nodes/edges structure, encode returns the graph of one intent
\* unit without relations, and the run does not fail.
C19_MalformedExtractionFallsBack ==
    io.extract \in {"unparseable", "wrong_shape"} =>
        /\ io.exception # "encode"
        /\ node_count(graph) = 1
        /\ graph.nodes[1].node_type = "intent"
        /\ graph.edges = <<>>

\* C20: for any callers of chat on one client and any interleaving, every two
\* requests sent to the endpoint, re-sent ones included, are at least
\* 60 / requests_per_minute seconds apart, and at most one caller at a time
\* is inside the gate (holds the limiter's lock across its sleep).
C20_RequestsSpacedOneInGate ==
    /\ \A i, j \in DOMAIN sent :
          i < j => sent[j].time - sent[i].time >= Interval
    /\ Cardinality({c \in Callers : callers[c].pc = "sleeping"}) <= 1

\* C21: every executed iteration appends exactly one record, before the
\* convergence decision; in a returned result the records are numbered
\* 1, 2, ..., n, n is the number of iterations executed, and each record's
\* entropy_target is the target the compression of that iteration used.
C21_OneRecordPerIteration ==
    [][/\ (pc = "record" /\ pc' # "record") =>
             /\ Len(iterations') = Len(iterations) + 1
             /\ SubSeq(iterations', 1, Len(iterations)) = iterations
             /\ iterations'[Len(iterations')].iteration = iteration
             /\ iterations'[Len(iterations')].entropy_target
                   = current_entropy_target
       /\ (pc \in {"compress", "decode", "judge", "analyze"}) =>
             /\ current_entropy_target' = current_entropy_target
             /\ iteration' = iteration
             /\ iterations' = iterations
       /\ (pc \in {"check", "loop"}) => iterations' = iterations
       /\ Returned' =>
             /\ \A k \in DOMAIN result'.iterations :
                   result'.iterations[k].iteration = k
             /\ Len(result'.iterations) = iteration'
             /\ Len(result'.iterations) = calls'.compress]_vars

\* a run has returned three records, the second with another target than
\* the first
C21_Witness ==
    /\ Returned
    /\ Len(result.iterations) = 3
    /\ result.iterations[2].entropy_target # result.iterations[1].entropy_target

\* C27: the booster and the relaxation run only after an iteration that did
\* not converge and is not the last allowed one: a returned result has one
\* boost application less than records, and the working graph and the target
\* are those the final iteration's compression saw.
C27_RefineOnlyBetweenIterations ==
    Returned =>
        LET n     == Len(result.iterations)
            final == result.iterations[n]
        IN  /\ calls.boost = n - 1
            /\ current_entropy_target = final.entropy_target
            /\ total_importance(graph) = final.total_importance
            /\ view_total_importance(graph, final.graph)
                  = final.retained_importance

\* an exhausted run of three iterations whose boosts raised a unit
C27_Witness ==
    /\ Returned
    /\ ~result.success
    /\ Len(result.iterations) = 3
    /\ result.iterations[3].total_importance
          > result.iterations[1].total_importance

\* C28: boosting changes nothing but importance: after extraction the ids,
\* contents, kinds and entropies of the units, the relations and the root of
\* the working graph never change, no importance decreases, and every record
\* carries the same total_entropy.
C28_BoostChangesImportanceOnly ==
    [][(pc # "start") =>
          /\ Len(graph'.nodes) = Len(graph.nodes)
          /\ \A i \in DOMAIN graph.nodes :
                /\ graph'.nodes[i].id = graph.nodes[i].id
                /\ graph'.nodes[i].content = graph.nodes[i].content
                /\ graph'.nodes[i].node_type = graph.nodes[i].node_type
                /\ graph'.nodes[i].entropy = graph.nodes[i].entropy
                /\ graph'.nodes[i].importance >= graph.nodes[i].importance
          /\ graph'.edges = graph.edges
          /\ graph'.root_id = graph.root_id
          /\ \A k \in DOMAIN iterations' :
                iterations'[k].total_entropy = total_entropy(graph')]_vars

\* the second iteration works on a graph a boost has raised
C28_Witness ==
    /\ pc = "check"
    /\ iteration = 2
    /\ Len(iterations) = 2
    /\ iterations[2].total_importance > iterations[1].total_importance
    /\ iterations[2].total_entropy = iterations[1].total_entropy

\* C29: the entropy target recorded for iteration k+1 is never lower than the
\* one recorded for iteration k.
C29_TargetNeverLower ==
    \A k \in DOMAIN iterations :
        k > 1 => iterations[k].entropy_target >= iterations[k - 1].entropy_target

\* the reference procedure of C25: the units outside the preserved kinds
RefRest(g, kinds) == {i \in DOMAIN g.nodes : g.nodes[i].node_type \notin kinds}

\* rank of unit i in importance-descending order, ties in insertion order
RefRank(g, kinds, i) ==
    1 + Cardinality({j \in RefRest(g, kinds) :
            \/ g.nodes[j].importance > g.nodes[i].importance
            \/ /\ g.nodes[j].importance = g.nodes[i].importance
               /\ j < i})

\* the unit visited at turn k
RefVisit(g, kinds, k) ==
    g.nodes[CHOOSE i \in RefRest(g, kinds) : RefRank(g, kinds, i) = k]

\* selection and accumulated entropy after k visits
RECURSIVE RefAfter(_, _, _, _)
RefAfter(g, r, kinds, k) ==
    IF k = 0
    THEN LET kept == DOMAIN g.nodes \ RefRest(g, kinds)
         IN  [selected |-> {g.nodes[i].id : i \in kept},
              accumulated |-> SumEntropy(SelectSeq(g.nodes,
                                 LAMBDA n : n.node_type \in kinds))]
    ELSE LET before == RefAfter(g, r, kinds, k - 1)
             u      == RefVisit(g, kinds, k)
             admit  == [selected    |-> before.selected \cup {u.id},
                        accumulated |-> before.accumulated + u.entropy]
         IN  IF (before.accumulated + u.entropy) * RatioOne
                    <= total_entropy(g) * r
             THEN admit
             ELSE IF u.importance > EscapeImportance
                     /\ Cardinality(before.selected) < EscapeMaxSelected
                  THEN admit
                  ELSE before

RefSelect(g, r, kinds) ==
    RefAfter(g, r, kinds, Cardinality(RefRest(g, kinds))).selected

\* C25: the unit set of compress(G, r) is the one the reference procedure
\* gives: preserved units first, the others in importance-descending order
\* with ties in insertion order, admitted by the budget rule or else by the
\* escape valve, a skipped unit not ending the walk.
C25_MatchesReferenceWalk ==
    Called => c_out.graph.nodes = RefSelect(c_graph, c_ratio, c_preserve)

\* a unit was skipped and a later, less important unit was admitted
C25_Witness ==
    /\ Called
    /\ \E i, j \in RefRest(c_graph, c_preserve) :
          /\ c_graph.nodes[i].importance > c_graph.nodes[j].importance
          /\ c_graph.nodes[i].id \notin c_out.graph.nodes
          /\ c_graph.nodes[j].id \in c_out.graph.nodes

\* C26: for a non-empty list of phrases, boost multiplies the importance of
\* exactly the units whose terms intersect the missing terms, by 1.5 when
\* the intersection is more than 0.3 of the unit's terms and by 1.2
\* otherwise, capped at 1.0, and returns the number of units whose importance
\* strictly increased.
C26_BoostRule ==
    [][(/\ b_calls' = b_calls + 1
        /\ b_concepts' # <<>>
        /\ \A c \in DOMAIN b_concepts' : IsStr(b_concepts'[c])) =>
          LET missing == UNION {Terms(b_concepts'[c]) : c \in DOMAIN b_concepts'}
              after(i) ==
                  LET n     == b_graph.nodes[i]
                      inter == Terms(n.content) \cap missing
                      ratio10 == 10 * Cardinality(inter)
                      unit3   == 3 * Max(Cardinality(Terms(n.content)), 1)
                  IN  IF inter = {} THEN n.importance
                      ELSE IF ratio10 > unit3
                           THEN Min((n.importance * 15) \div 10, ImportanceOne)
                           ELSE Min((n.importance * 12) \div 10, ImportanceOne)
          IN  /\ \A i \in DOMAIN b_graph.nodes :
                    b_graph'.nodes[i].importance = after(i)
              /\ b_count' = Cardinality({i \in DOMAIN b_graph.nodes :
                                after(i) > b_graph.nodes[i].importance})]_vars

\* both units share a term with the missing concept, one of them has
\* importance 0, and one unit was counted
C26_Witness ==
    /\ b_calls > 0
    /\ b_concepts = << <<"revenue">> >>
    /\ Len(b_graph.nodes) = 2
    /\ \A i \in DOMAIN b_graph.nodes : "revenue" \in Terms(b_graph.nodes[i].content)
    /\ \E i \in DOMAIN b_graph.nodes : b_graph.nodes[i].importance = 0
    /\ b_count = 1

\* the units outside the preserved kinds in the order compress visits them
CVisited == SortedDesc(Prunable(c_graph, c_preserve))

\* C30: the entropy of a unit admitted through the escape valve is added to
\* the accumulated entropy: once the valve has admitted a unit the
\* accumulated entropy exceeds the target, and every unit visited afterwards
\* that is admitted is admitted through the valve.
C30_AfterEscapeOnlyEscape ==
    Called =>
        /\ c_out.walk.current_entropy = COutEntropy
        /\ c_out.walk.escaped # {} =>
              c_out.walk.current_entropy * RatioOne > CTarget100
        /\ \A i, j \in DOMAIN CVisited :
              (/\ i < j
               /\ CVisited[i].id \in c_out.walk.escaped
               /\ CVisited[j].id \in c_out.walk.selected_nodes)
                  => CVisited[j].id \in c_out.walk.escaped

\* the valve admitted a unit, and a unit visited later was dropped although
\* it fits the budget next to the units admitted by the budget rule
C30_Witness ==
    /\ Called
    /\ \E i, j \in DOMAIN CVisited :
          /\ i < j
          /\ CVisited[i].id \in c_out.walk.escaped
          /\ CVisited[j].id \notin c_out.walk.selected_nodes
          /\ (COutEntropy - EscapedEntropy + CVisited[j].entropy) * RatioOne
                <= CTarget100

\* C22: compress_to_budget terminates, with passes <= max_passes and no more
\* than max_passes calls of the compressor, also when the budget is never
\* met; text already within the budget gives passes = 0, an empty log and
\* the text unchanged, without a call of the compressor.
C22_TerminatesWithinMaxPasses ==
    /\ <>(engine.pc \in {"returned", "raised"})
    /\ [](engine.pc = "returned" =>
            /\ engine.result.passes <= engine.max_passes
            /\ engine.calls <= engine.max_passes
            /\ CountTokens(engine.text) <= engine.budget =>
                  /\ engine.result.passes = 0
                  /\ engine.result.log = <<>>
                  /\ engine.result.compressed_text = engine.text
                  /\ engine.calls = 0)

\* all allowed passes were made and the budget is still not met
C22_Witness ==
    /\ engine.pc = "returned"
    /\ engine.max_passes >= 2
    /\ engine.result.passes = engine.max_passes
    /\ engine.result.final_tokens > engine.budget

\* C23: the loop stops at the first pass whose output is not strictly
\* smaller than its input, and that pass is neither counted nor logged: in
\* every result len(log) = passes, every logged step has output_tokens <
\* input_tokens, and a compressor that never reduces gives passes <= 1.
C23_StopsWithoutRecording ==
    [][/\ (engine.pc = "loop" /\ engine'.pc = "break") =>
             /\ engine'.log = engine.log
             /\ engine'.passes = engine.passes
             /\ engine'.current_text = engine.current_text
       /\ (engine.pc = "break") =>
             /\ engine'.pc = "returned"
             /\ engine'.calls = engine.calls
       /\ (engine'.pc = "returned") =>
             /\ Len(engine'.result.log) = engine'.result.passes
             /\ \A k \in DOMAIN engine'.result.log :
                   engine'.result.log[k].output_tokens
                      < engine'.result.log[k].input_tokens
             /\ engine'.calls <= engine'.result.passes + 1
             /\ engine'.compressor = "same" => engine'.result.passes <= 1]_vars

\* an improving pass was followed by one that did not improve, before the
\* allowed passes were used up
C23_Witness ==
    /\ engine.pc = "returned"
    /\ engine.result.passes >= 1
    /\ engine.result.passes < engine.max_passes
    /\ engine.calls = engine.result.passes + 1
    /\ engine.result.final_tokens > engine.budget

OrderedEvents ==
    <<"MESSAGE_RECEIVED", "COMPRESSION_START", "COMPRESSION_COMPLETE",
      "EXTRACTION_START", "EXTRACTION_COMPLETE", "PIPELINE_COMPLETE">>

\* C24: in a run of process with compression and extraction enabled and no
\* stage failing, the six events above are emitted once each, in this order
\* (pass and judge events may lie between them); and the result depends on
\* the outcomes of the stages only, also when every handler raises.
C24_EventOrderHandlersHarmless ==
    mediator.pc = "returned" =>
        /\ (/\ mediator.compression_enabled
            /\ mediator.semantic_keys_enabled
            /\ ~engine.compressor_raised
            /\ ~mediator.extractor_raised) =>
              SelectSeq(emitted, LAMBDA e : e \in Range(OrderedEvents))
                 = OrderedEvents
        /\ mediator.result.success
              = ~(engine.compressor_raised \/ mediator.extractor_raised)
        /\ mediator.result.error
              = IF engine.compressor_raised THEN "compression"
                ELSE IF mediator.extractor_raised THEN "extraction"
                ELSE "none"
        /\ mediator.result.compression
              = IF engine.pc = "returned" THEN "done" ELSE "none"

\* a successful run with both stages, a compression pass, and handlers
\* that raise on every event
C24_Witness ==
    /\ mediator.pc = "returned"
    /\ mediator.handler_raises
    /\ mediator.compression_enabled
    /\ mediator.semantic_keys_enabled
    /\ mediator.result.success
    /\ \E k \in DOMAIN emitted : emitted[k] = "COMPRESSION_PASS"
====
